---- MODULE Spec2Model ----
(***************************************************************************)
(* A model of the mui-bueno command line tool: component discovery, the    *)
(* dependency analyzer, the download orchestrator, the import path         *)
(* rewriter and the download command, translated from                      *)
(* src/src/services/git-service.ts and src/src/commands/download.ts.       *)
(*                                                                         *)
(* Strings are TLA+ strings; TLC evaluates Len, SubSeq and \o on them, so  *)
(* prefix, substring and replacement tests are made character by           *)
(* character, as String.prototype.startsWith / includes / replace do.      *)
(* A value that a function of the source holds in a local constant is the  *)
(* parameter of an operator here, so that it is computed once.             *)
(***************************************************************************)
EXTENDS Integers, Sequences, FiniteSets, TLC

(***************************************************************************)
(* JavaScript string operations                                            *)
(***************************************************************************)

\* s.startsWith(p)
StartsWith(s, p) ==
  Len(p) <= Len(s) /\ SubSeq(s, 1, Len(p)) = p

\* s.endsWith(p)
EndsWith(s, p) ==
  Len(p) <= Len(s) /\ SubSeq(s, Len(s) - Len(p) + 1, Len(s)) = p

\* the least element of a set of positions, 0 for the empty set
Least(S) ==
  IF S = {} THEN 0 ELSE CHOOSE i \in S : \A j \in S : i <= j

\* the greatest element of a set of positions, 0 for the empty set
Greatest(S) ==
  IF S = {} THEN 0 ELSE CHOOSE i \in S : \A j \in S : i >= j

\* the positions at which sub occurs in s
Occurrences(s, sub) ==
  { i \in 1..(Len(s) - Len(sub) + 1) : SubSeq(s, i, i + Len(sub) - 1) = sub }

\* s.indexOf(sub) + 1 : the 1-based position of the first occurrence, 0 if none
IndexOf(s, sub) ==
  Least(Occurrences(s, sub))

\* s.lastIndexOf(sub) + 1
LastIndexOf(s, sub) ==
  Greatest(Occurrences(s, sub))

\* s.includes(sub)
Includes(s, sub) ==
  \E i \in 1..(Len(s) - Len(sub) + 1) : SubSeq(s, i, i + Len(sub) - 1) = sub

\* s with the n characters at position i replaced by rep; s itself when i = 0
ReplaceAt(s, i, n, rep) ==
  IF i = 0 THEN s
  ELSE SubSeq(s, 1, i - 1) \o rep \o SubSeq(s, i + n, Len(s))

\* s.replace(pat, rep) with a string pattern: the first occurrence only
ReplaceFirst(s, pat, rep) ==
  ReplaceAt(s, IndexOf(s, pat), Len(pat), rep)

\* one character of toLowerCase()
LowerChar(c) ==
  CASE c = "A" -> "a" [] c = "B" -> "b" [] c = "C" -> "c" [] c = "D" -> "d"
    [] c = "E" -> "e" [] c = "F" -> "f" [] c = "G" -> "g" [] c = "H" -> "h"
    [] c = "I" -> "i" [] c = "J" -> "j" [] c = "K" -> "k" [] c = "L" -> "l"
    [] c = "M" -> "m" [] c = "N" -> "n" [] c = "O" -> "o" [] c = "P" -> "p"
    [] c = "Q" -> "q" [] c = "R" -> "r" [] c = "S" -> "s" [] c = "T" -> "t"
    [] c = "U" -> "u" [] c = "V" -> "v" [] c = "W" -> "w" [] c = "X" -> "x"
    [] c = "Y" -> "y" [] c = "Z" -> "z" [] OTHER -> c

RECURSIVE ToLowerCase(_)
\* s.toLowerCase()
ToLowerCase(s) ==
  IF Len(s) = 0 THEN ""
  ELSE LowerChar(SubSeq(s, 1, 1)) \o ToLowerCase(SubSeq(s, 2, Len(s)))

RECURSIVE Split(_, _)
\* s.split(sep) when the first separator of s is at position i
SplitAt(s, sep, i) ==
  IF i = 0 THEN << s >>
  ELSE << SubSeq(s, 1, i - 1) >> \o Split(SubSeq(s, i + 1, Len(s)), sep)

\* s.split(sep) for a one-character separator
Split(s, sep) ==
  SplitAt(s, sep, IndexOf(s, sep))

RECURSIVE JoinWith(_, _)
\* segs.join(sep)
JoinWith(segs, sep) ==
  IF Len(segs) = 0 THEN ""
  ELSE IF Len(segs) = 1 THEN segs[1]
  ELSE segs[1] \o sep \o JoinWith(Tail(segs), sep)

\* the elements of a sequence
Range(seq) ==
  { seq[i] : i \in 1..Len(seq) }

\* seq.includes(x)
SeqIncludes(seq, x) ==
  \E i \in 1..Len(seq) : seq[i] = x

\* seq.slice(0, n)
SliceTo(seq, n) ==
  SubSeq(seq, 1, IF Len(seq) < n THEN Len(seq) ELSE n)

(***************************************************************************)
(* Node's path module (POSIX): the paths of the model carry no trailing    *)
(* slash; process.cwd() is the directory relative paths are resolved in.   *)
(***************************************************************************)

\* process.cwd()
Cwd == "/w"

IsAbsolute(p) ==
  StartsWith(p, "/")

RECURSIVE NormSegs(_, _, _)
\* the segments of a path with "", "." and ".." resolved; above the root of an
\* absolute path ".." is dropped, at the start of a relative one it is kept
NormSegs(segs, acc, abs) ==
  IF Len(segs) = 0 THEN acc
  ELSE IF segs[1] = "" \/ segs[1] = "." THEN NormSegs(Tail(segs), acc, abs)
  ELSE IF segs[1] # ".." THEN NormSegs(Tail(segs), Append(acc, segs[1]), abs)
  ELSE IF Len(acc) > 0 /\ acc[Len(acc)] # ".."
    THEN NormSegs(Tail(segs), SubSeq(acc, 1, Len(acc) - 1), abs)
  ELSE IF abs THEN NormSegs(Tail(segs), acc, abs)
  ELSE NormSegs(Tail(segs), Append(acc, ".."), abs)

\* the normalized path of the joined segments `body`
PathOf(abs, body) ==
  IF abs THEN "/" \o body
  ELSE IF body = "" THEN "." ELSE body

\* path.normalize(p)
path_normalize(p) ==
  PathOf(IsAbsolute(p), JoinWith(NormSegs(Split(p, "/"), << >>, IsAbsolute(p)), "/"))

\* path.join(a, b)
path_join(a, b) ==
  path_normalize(IF a = "" THEN b ELSE IF b = "" THEN a ELSE a \o "/" \o b)

\* path.resolve(from, to)
path_resolve(from, to) ==
  path_normalize(IF IsAbsolute(to) THEN to
                 ELSE IF IsAbsolute(from) THEN from \o "/" \o to
                 ELSE Cwd \o "/" \o from \o "/" \o to)

\* the segments of path.resolve(p): p below process.cwd() unless it is absolute
ResolvedSegs(p) ==
  NormSegs(Split(IF IsAbsolute(p) THEN p ELSE Cwd \o "/" \o p, "/"), << >>, TRUE)

RECURSIVE CommonLen(_, _)
CommonLen(a, b) ==
  IF Len(a) = 0 \/ Len(b) = 0 \/ a[1] # b[1] THEN 0
  ELSE 1 + CommonLen(Tail(a), Tail(b))

\* the relative path from segments f to segments t that share their first k
UpAndDown(f, t, k) ==
  JoinWith([i \in 1..(Len(f) - k) |-> ".."] \o SubSeq(t, k + 1, Len(t)), "/")

\* the relative path from segments f to segments t
RelativeSegs(f, t) ==
  UpAndDown(f, t, CommonLen(f, t))

\* path.relative(from, to)
path_relative(from, to) ==
  RelativeSegs(ResolvedSegs(from), ResolvedSegs(to))

\* path.basename(p)
path_basename(p) ==
  SubSeq(p, LastIndexOf(p, "/") + 1, Len(p))

\* path.dirname(p) when the last "/" of p is at position i
DirnameAt(p, i) ==
  IF i = 0 THEN "."
  ELSE IF i = 1 THEN "/"
  ELSE SubSeq(p, 1, i - 1)

\* path.dirname(p)
path_dirname(p) ==
  DirnameAt(p, LastIndexOf(p, "/"))

\* the extension of the last segment b when its last "." is at position i
ExtAt(b, i) ==
  IF i <= 1 \/ b = ".." THEN "" ELSE SubSeq(b, i, Len(b))

\* the extension of the last segment b
ExtOf(b) ==
  ExtAt(b, LastIndexOf(b, "."))

\* path.extname(p): from the last "." of the last segment, "" when there is none
\* or when it is the first character of that segment
path_extname(p) ==
  ExtOf(path_basename(p))

(***************************************************************************)
(* The cached repository.  A repository is a sequence of files in listing  *)
(* order, each [path, imports]: the path is absolute and the content of a  *)
(* file is the sequence of its import statements, each [kind, target]      *)
(* with kind "from" (import x from 't'), "side" (import 't') or "dynamic"  *)
(* (import('t')).                                                          *)
(***************************************************************************)

\* this.cacheDir joined with the repository directory: the checkout
RepoPath == "/r"

\* path.join(repoPath, 'src')
SrcPath == "/r/src"

\* path.join(repoPath, 'src', 'components')
ComponentsPath == "/r/src/components"

\* fs.pathExists(p) for a file
IsFile(repo, p) ==
  \E i \in 1..Len(repo) : repo[i].path = p

\* stat.isDirectory()
IsDirectory(repo, p) ==
  \E i \in 1..Len(repo) : StartsWith(repo[i].path, p \o "/")

\* fs.pathExists(p)
PathExists(repo, p) ==
  \E i \in 1..Len(repo) : repo[i].path = p \/ StartsWith(repo[i].path, p \o "/")

\* the content of file p
ReadFile(repo, p) ==
  repo[CHOOSE j \in 1..Len(repo) : repo[j].path = p].imports

\* the name directly inside dir on the way to file p, "" when p is not below dir
ItemOf(p, dir) ==
  IF StartsWith(p, dir \o "/") THEN Split(SubSeq(p, Len(dir) + 2, Len(p)), "/")[1] ELSE ""

\* the listing with one more name, once
AddItem(acc, item) ==
  IF item = "" \/ SeqIncludes(acc, item) THEN acc ELSE Append(acc, item)

RECURSIVE ReadDirFrom(_, _, _)
ReadDirFrom(repo, dir, acc) ==
  IF Len(repo) = 0 THEN acc
  ELSE ReadDirFrom(Tail(repo), dir, AddItem(acc, ItemOf(repo[1].path, dir)))

\* fs.readdir(dir): the names directly inside dir, in listing order
ReadDir(repo, dir) ==
  ReadDirFrom(repo, dir, << >>)

\* the files below dir, in listing order (what fs.copy(dir, ...) copies)
FilesBelow(repo, dir) ==
  SelectSeq(repo, LAMBDA f : StartsWith(f.path, dir \o "/"))

(***************************************************************************)
(* Component discovery                                                     *)
(***************************************************************************)

\* the test of findAllComponents on one file name of a directory
IsComponentFile(file) ==
  EndsWith(file, ".tsx") /\ ~Includes(file, ".stories.") /\ ~Includes(file, ".test.")

\* files.some(file => ...) of findAllComponents
hasComponentFile(repo, itemPath) ==
  \E file \in Range(ReadDir(repo, itemPath)) : IsComponentFile(file)

RECURSIVE findAllComponentsIn(_, _, _, _)
\* one turn of the loop as it would be if the walk stopped at a component
\* directory: the components below it are not looked for
findComponentsAtStopping(repo, item, itemPath, componentName) ==
  IF StartsWith(item, ".") \/ item = "README.md" \/ ~IsDirectory(repo, itemPath)
    THEN << >>
    ELSE IF hasComponentFile(repo, itemPath)
      THEN << [name |-> componentName, path |-> itemPath] >>
      ELSE findAllComponentsIn(repo, itemPath, componentName, ReadDir(repo, itemPath))

\* one turn of the loop of findAllComponents: the item itself when it is a
\* component directory, then the components below it
findComponentsAt(repo, item, itemPath, componentName) ==
  IF StartsWith(item, ".") \/ item = "README.md" \/ ~IsDirectory(repo, itemPath)
    THEN << >>
    ELSE (IF hasComponentFile(repo, itemPath)
            THEN << [name |-> componentName, path |-> itemPath] >>
            ELSE << >>)
         \o findAllComponentsIn(repo, itemPath, componentName, ReadDir(repo, itemPath))

\* the loop of findAllComponents over the items of basePath
findAllComponentsIn(repo, basePath, relativePath, items) ==
  IF Len(items) = 0 THEN << >>
  ELSE findComponentsAt(repo, items[1], path_join(basePath, items[1]),
                        IF relativePath # "" THEN relativePath \o "/" \o items[1] ELSE items[1])
       \o findAllComponentsIn(repo, basePath, relativePath, Tail(items))

\* findAllComponents(basePath)
findAllComponents(repo, basePath) ==
  IF ~PathExists(repo, basePath) THEN << >>
  ELSE findAllComponentsIn(repo, basePath, "", ReadDir(repo, basePath))

\* allComponents.map(comp => comp.name)
Names(allComponents) ==
  [i \in 1..Len(allComponents) |-> allComponents[i].name]

\* allComponents.find(comp => comp.name === name) is defined
InIndex(allComponents, name) ==
  \E i \in 1..Len(allComponents) : allComponents[i].name = name

\* allComponents.find(comp => comp.name === name)
FindComponent(allComponents, name) ==
  allComponents[CHOOSE i \in 1..Len(allComponents) : allComponents[i].name = name]

(***************************************************************************)
(* The dependency analyzer                                                 *)
(***************************************************************************)

\* null, and the empty result of a resolution (both falsy in the source)
Null == ""

\* a || b on resolution results
OrElse(a, b) ==
  IF a # Null THEN a ELSE b

\* the capture group (\.[^'"`]+) of the import patterns
IsLocalTarget(t) ==
  StartsWith(t, ".") /\ Len(t) >= 2

\* the targets of a sequence of import statements
Targets(statements) ==
  [i \in 1..Len(statements) |-> statements[i].target]

\* extractLocalImports(content): the static imports, then the dynamic ones
extractLocalImports(content) ==
  Targets(SelectSeq(content, LAMBDA st : st.kind \in {"from", "side"} /\ IsLocalTarget(st.target))
          \o SelectSeq(content, LAMBDA st : st.kind = "dynamic" /\ IsLocalTarget(st.target)))

RECURSIVE FirstContainingAny(_, _, _)
\* the first loop of resolveComponentDependency as it would be without its
\* test "component.path !== currentComponentPath"
FirstContainingAny(allComponents, resolvedPath, currentComponentPath) ==
  IF Len(allComponents) = 0 THEN Null
  ELSE IF StartsWith(resolvedPath, allComponents[1].path)
    THEN allComponents[1].name
    ELSE FirstContainingAny(Tail(allComponents), resolvedPath, currentComponentPath)

RECURSIVE FirstContaining(_, _, _)
\* the first loop of resolveComponentDependency
FirstContaining(allComponents, resolvedPath, currentComponentPath) ==
  IF Len(allComponents) = 0 THEN Null
  ELSE IF /\ StartsWith(resolvedPath, allComponents[1].path)
          /\ allComponents[1].path # currentComponentPath
    THEN allComponents[1].name
    ELSE FirstContaining(Tail(allComponents), resolvedPath, currentComponentPath)

\* potentialName when the index holds it and it is not the current component
NameIfOther(allComponents, potentialName, currentComponentName) ==
  IF InIndex(allComponents, potentialName) /\ potentialName # currentComponentName
    THEN potentialName
    ELSE Null

RECURSIVE LongestPrefixName(_, _, _, _)
\* the second loop of resolveComponentDependency: i from dirParts.length down to 1
LongestPrefixName(allComponents, dirParts, i, currentComponentName) ==
  IF i = 0 THEN Null
  ELSE OrElse(NameIfOther(allComponents, JoinWith(SubSeq(dirParts, 1, i), "/"),
                          currentComponentName),
              LongestPrefixName(allComponents, dirParts, i - 1, currentComponentName))

\* the dirParts of resolveComponentDependency: pathParts without a last part
\* that has an extension
DirParts(pathParts) ==
  IF path_extname(pathParts[Len(pathParts)]) # ""
    THEN SubSeq(pathParts, 1, Len(pathParts) - 1)
    ELSE pathParts

\* the second loop of resolveComponentDependency from dirParts.length
LongestPrefix(allComponents, dirParts, currentComponentName) ==
  LongestPrefixName(allComponents, dirParts, Len(dirParts), currentComponentName)

\* resolveComponentDependency once resolvedPath is computed
resolveComponentAt(resolvedPath, currentComponentPath, componentsBasePath, allComponents) ==
  IF ~StartsWith(resolvedPath, componentsBasePath) THEN Null
  ELSE OrElse(FirstContaining(allComponents, resolvedPath, currentComponentPath),
              LongestPrefix(allComponents,
                            DirParts(Split(path_relative(componentsBasePath, resolvedPath), "/")),
                            path_relative(componentsBasePath, currentComponentPath)))

\* if (!path.extname(importPath)) resolvedPath = potentialPaths[0]
WithTsx(importPath, base) ==
  IF path_extname(importPath) = "" THEN base \o ".tsx" ELSE base

\* resolveComponentDependency(importPath, currentComponentPath, componentsBasePath, allComponents)
resolveComponentDependency(importPath, currentComponentPath, componentsBasePath, allComponents) ==
  resolveComponentAt(WithTsx(importPath, path_resolve(currentComponentPath, importPath)),
                     currentComponentPath, componentsBasePath, allComponents)

RECURSIVE FirstExisting(_, _, _)
\* the first of potentialPaths that exists, else the path as resolved
FirstExisting(repo, potentialPaths, resolvedPath) ==
  IF Len(potentialPaths) = 0 THEN resolvedPath
  ELSE IF PathExists(repo, potentialPaths[1]) THEN potentialPaths[1]
  ELSE FirstExisting(repo, Tail(potentialPaths), resolvedPath)

\* the potentialPaths of resolveSharedFileDependency
PotentialPaths(resolvedPath) ==
  << resolvedPath \o ".tsx", resolvedPath \o ".ts", resolvedPath \o ".jsx", resolvedPath \o ".js",
     path_join(resolvedPath, "index.tsx"), path_join(resolvedPath, "index.ts"),
     path_join(resolvedPath, "index.js") >>

\* the resolvedPath of resolveSharedFileDependency after the extensions were tried
WithExtension(repo, importPath, resolvedPath) ==
  IF path_extname(importPath) = ""
    THEN FirstExisting(repo, PotentialPaths(resolvedPath), resolvedPath)
    ELSE resolvedPath

\* the last test of resolveSharedFileDependency: inside src, existing, and
\* not inside src/components
SharedIfValid(repo, resolvedPath, srcPath) ==
  IF /\ StartsWith(resolvedPath, srcPath)
     /\ PathExists(repo, resolvedPath)
     /\ ~Includes(resolvedPath, path_join(srcPath, "components"))
    THEN resolvedPath
    ELSE Null

\* resolveSharedFileDependency(importPath, currentComponentPath, srcPath)
resolveSharedFileDependency(repo, importPath, currentComponentPath, srcPath) ==
  SharedIfValid(repo,
                WithExtension(repo, importPath, path_resolve(currentComponentPath, importPath)),
                srcPath)

\* the filter of findAllDependencies on the names of the component directory
IsCodeFile(file) ==
  /\ EndsWith(file, ".tsx") \/ EndsWith(file, ".ts") \/ EndsWith(file, ".jsx") \/ EndsWith(file, ".js")
  /\ ~Includes(file, ".stories.")

\* the body of the loop of findAllDependencies over the imports: a component
\* dependency is recorded once, otherwise a shared file is
AddDependency(acc, componentDep, sharedFileDep) ==
  IF componentDep # Null /\ ~SeqIncludes(acc.components, componentDep)
    THEN [acc EXCEPT !.components = Append(@, componentDep)]
    ELSE IF sharedFileDep # Null /\ ~SeqIncludes(acc.sharedFiles, sharedFileDep)
      THEN [acc EXCEPT !.sharedFiles = Append(@, sharedFileDep)]
      ELSE acc

RECURSIVE AnalyzeImports(_, _, _, _, _, _)
\* the loop of findAllDependencies over the local imports of one file
AnalyzeImports(repo, localImports, componentPath, srcPath, allComponents, acc) ==
  IF Len(localImports) = 0 THEN acc
  ELSE AnalyzeImports(repo, Tail(localImports), componentPath, srcPath, allComponents,
         AddDependency(acc,
                       resolveComponentDependency(localImports[1], componentPath,
                                                  path_join(srcPath, "components"), allComponents),
                       resolveSharedFileDependency(repo, localImports[1], componentPath, srcPath)))

RECURSIVE AnalyzeFiles(_, _, _, _, _, _, _)
\* one turn of the loop of findAllDependencies over the code files; reading a
\* file of `unreadable` throws, which the catch around the loop turns into a
\* warning and the dependencies found so far
AnalyzeFile(repo, unreadable, codeFiles, filePath, componentPath, srcPath, allComponents, acc) ==
  IF filePath \in unreadable \/ ~IsFile(repo, filePath) THEN acc
  ELSE AnalyzeFiles(repo, unreadable, Tail(codeFiles), componentPath, srcPath, allComponents,
                    AnalyzeImports(repo, extractLocalImports(ReadFile(repo, filePath)),
                                   componentPath, srcPath, allComponents, acc))

\* the loop of findAllDependencies over the code files
AnalyzeFiles(repo, unreadable, codeFiles, componentPath, srcPath, allComponents, acc) ==
  IF Len(codeFiles) = 0 THEN acc
  ELSE AnalyzeFile(repo, unreadable, codeFiles, path_join(componentPath, codeFiles[1]),
                   componentPath, srcPath, allComponents, acc)

\* the empty result of findAllDependencies
NoDeps == [components |-> << >>, sharedFiles |-> << >>]

\* findAllDependencies(componentPath, srcPath, allComponents)
findAllDependencies(repo, unreadable, componentPath, srcPath, allComponents) ==
  AnalyzeFiles(repo, unreadable, SelectSeq(ReadDir(repo, componentPath), IsCodeFile),
               componentPath, srcPath, allComponents, NoDeps)

(***************************************************************************)
(* The output directory: a sequence of files like the repository, in the   *)
(* order they were first written.                                          *)
(***************************************************************************)

\* fs.writeFile(p, content) / the copy of one file: replace in place or add
WriteFile(out, p, content) ==
  IF IsFile(out, p)
    THEN [i \in 1..Len(out) |-> IF out[i].path = p THEN [path |-> p, imports |-> content] ELSE out[i]]
    ELSE Append(out, [path |-> p, imports |-> content])

RECURSIVE WriteFiles(_, _, _, _)
WriteFiles(out, files, from, to) ==
  IF Len(files) = 0 THEN out
  ELSE WriteFiles(WriteFile(out, to \o SubSeq(files[1].path, Len(from) + 1, Len(files[1].path)),
                            files[1].imports),
                  Tail(files), from, to)

\* fs.copy(from, to): a file, or a directory with everything below it
Copy(repo, out, from, to) ==
  IF IsFile(repo, from) THEN WriteFile(out, to, ReadFile(repo, from))
  ELSE WriteFiles(out, FilesBelow(repo, from), from, to)

\* the paths of a sequence of files
Paths(files) ==
  [i \in 1..Len(files) |-> files[i].path]

\* findAllFilesRecursive(dir, ['.tsx', '.ts', '.jsx', '.js'])
findAllFilesRecursive(out, dir) ==
  Paths(SelectSeq(out, LAMBDA f : StartsWith(f.path, dir \o "/") /\
                    (EndsWith(f.path, ".tsx") \/ EndsWith(f.path, ".ts") \/
                     EndsWith(f.path, ".jsx") \/ EndsWith(f.path, ".js"))))

\* content.replace(importRegex, `$1${newImportPath}$2`): the pattern needs
\* "import ... from", so only the statements of kind "from" are rewritten
ReplaceImport(content, importPath, newImportPath) ==
  [i \in 1..Len(content) |->
     IF content[i].kind = "from" /\ content[i].target = importPath
       THEN [content[i] EXCEPT !.target = newImportPath]
       ELSE content[i]]

\* if (newImportPath && newImportPath !== importPath) content = content.replace(...)
ReplaceIfNew(content, importPath, newImportPath) ==
  IF newImportPath # Null /\ newImportPath # importPath
    THEN ReplaceImport(content, importPath, newImportPath)
    ELSE content

(***************************************************************************)
(* Shared files                                                            *)
(***************************************************************************)

\* the "simplifiedPath" of downloadSharedFile and calculateNewImportPath
simplifiedPath(relativePath) ==
  IF Includes(relativePath, "common/Utils")
    THEN ReplaceFirst(relativePath, "common/Utils", "Utils")
    ELSE IF Includes(relativePath, "common/")
      THEN ReplaceFirst(relativePath, "common/", "")
      ELSE relativePath

\* the targetPath of downloadSharedFile
sharedTargetPath(sharedFilePath, srcPath, targetDir) ==
  path_join(path_join(targetDir, "shared"), simplifiedPath(path_relative(srcPath, sharedFilePath)))

\* importPath.includes('@types') || importPath.endsWith('@types')
IsTypesImport(importPath) ==
  Includes(importPath, "@types") \/ EndsWith(importPath, "@types")

\* the local imports of a shared file; reading a directory or an unreadable
\* file throws, which downloadSharedFileOwnDependencies ignores
SharedFileImports(repo, unreadable, sharedFilePath) ==
  IF IsFile(repo, sharedFilePath) /\ sharedFilePath \notin unreadable
    THEN extractLocalImports(ReadFile(repo, sharedFilePath))
    ELSE << >>

\* the copy of src/@types to shared/@types, made once
CopyTypes(repo, failCopy, out, typesDir, targetTypesDir) ==
  IF /\ PathExists(repo, typesDir)
     /\ ~PathExists(out, targetTypesDir)
     /\ typesDir \notin failCopy
    THEN Copy(repo, out, typesDir, targetTypesDir)
    ELSE out

\* downloadSharedFileOwnDependencies(sharedFilePath, srcPath, targetDir)
downloadSharedFileOwnDependencies(repo, unreadable, failCopy, out, sharedFilePath, srcPath, targetDir) ==
  IF \E importPath \in Range(SharedFileImports(repo, unreadable, sharedFilePath)) :
       IsTypesImport(importPath)
    THEN CopyTypes(repo, failCopy, out, path_join(srcPath, "@types"),
                   path_join(path_join(targetDir, "shared"), "@types"))
    ELSE out

\* downloadSharedFile(sharedFilePath, srcPath, targetDir): a failing copy is caught
\* and logged, and the file's own dependencies are then not looked at
downloadSharedFile(repo, unreadable, failCopy, out, sharedFilePath, srcPath, targetDir) ==
  IF sharedFilePath \in failCopy THEN out
  ELSE downloadSharedFileOwnDependencies(
         repo, unreadable, failCopy,
         Copy(repo, out, sharedFilePath, sharedTargetPath(sharedFilePath, srcPath, targetDir)),
         sharedFilePath, srcPath, targetDir)

RECURSIVE downloadSharedFiles(_, _, _, _, _, _, _)
\* for (const sharedFile of allDependencies.sharedFiles) downloadSharedFile(...)
downloadSharedFiles(repo, unreadable, failCopy, out, sharedFiles, srcPath, targetDir) ==
  IF Len(sharedFiles) = 0 THEN out
  ELSE downloadSharedFiles(repo, unreadable, failCopy,
                           downloadSharedFile(repo, unreadable, failCopy, out, sharedFiles[1],
                                              srcPath, targetDir),
                           Tail(sharedFiles), srcPath, targetDir)

(***************************************************************************)
(* The import path rewriter                                                *)
(***************************************************************************)

\* the extensions importMatchesSharedFile tries
SharedExtensions ==
  { ".tsx", ".ts", ".jsx", ".js", ".d.ts" }

\* importMatchesSharedFile once resolvedImportPath is computed
MatchesResolved(importPath, resolvedImportPath, sharedFilePath) ==
  IF path_extname(importPath) = ""
    THEN \/ \E ext \in SharedExtensions : resolvedImportPath \o ext = sharedFilePath
         \/ \E ext \in SharedExtensions :
              path_join(resolvedImportPath, "index" \o ext) = sharedFilePath
         \/ /\ resolvedImportPath = path_dirname(sharedFilePath)
            /\ StartsWith(path_basename(sharedFilePath), "index.")
    ELSE resolvedImportPath = sharedFilePath

\* importMatchesSharedFile(importPath, sharedFilePath, currentFilePath)
importMatchesSharedFile(importPath, sharedFilePath, currentFilePath) ==
  MatchesResolved(importPath, path_resolve(path_dirname(currentFilePath), importPath),
                  sharedFilePath)

\* componentBaseName when the import contains it or the name of the dependency
BaseNameIfIn(originalImportPath, componentDep, componentBaseName) ==
  IF Includes(originalImportPath, componentBaseName) \/ Includes(originalImportPath, componentDep)
    THEN componentBaseName
    ELSE Null

RECURSIVE FirstComponentMatch(_, _)
\* the loop of calculateNewImportPath over dependencies.components: the
\* basename of the first dependency whose basename or name the import contains
FirstComponentMatch(components, originalImportPath) ==
  IF Len(components) = 0 THEN Null
  ELSE OrElse(BaseNameIfIn(originalImportPath, components[1], path_basename(components[1])),
              FirstComponentMatch(Tail(components), originalImportPath))

RECURSIVE srcBasePathOf(_)
\* while (path.basename(p) !== 'src' && path.dirname(p) !== p) p = path.dirname(p)
srcBasePathOf(p) ==
  IF path_basename(p) # "src" /\ path_dirname(p) # p THEN srcBasePathOf(path_dirname(p)) ELSE p

RECURSIVE FirstSharedMatch(_, _, _)
\* the first of dependencies.sharedFiles that importMatchesSharedFile accepts
FirstSharedMatch(sharedFiles, originalImportPath, currentFilePath) ==
  IF Len(sharedFiles) = 0 THEN Null
  ELSE IF importMatchesSharedFile(originalImportPath, sharedFiles[1], currentFilePath)
    THEN sharedFiles[1]
    ELSE FirstSharedMatch(Tail(sharedFiles), originalImportPath, currentFilePath)

\* the path of a component directory seen from currentFileDir, with the
\* basename appended: `${relativeToComponent}/${componentBaseName}`
componentImportPath(currentFileDir, targetDir, componentBaseName) ==
  path_relative(currentFileDir, path_join(targetDir, componentBaseName)) \o "/" \o componentBaseName

\* the path of shared/<name> seen from currentFileDir
sharedImportPath(currentFileDir, targetDir, name) ==
  path_relative(currentFileDir, path_join(path_join(targetDir, "shared"), name))

\* if (!path.extname(originalImportPath) && path.extname(finalPath)) the
\* extension is taken out of finalPath
WithoutExtension(originalImportPath, finalPath) ==
  IF path_extname(originalImportPath) = "" /\ path_extname(finalPath) # ""
    THEN ReplaceFirst(finalPath, path_extname(finalPath), "")
    ELSE finalPath

\* the last loop of calculateNewImportPath for the shared file that matched
sharedFileImportPath(originalImportPath, currentFileDir, targetDir, sharedFilePath) ==
  IF sharedFilePath = Null THEN Null
  ELSE WithoutExtension(originalImportPath,
         path_relative(currentFileDir, path_join(targetDir, "shared")) \o "/" \o
         simplifiedPath(path_relative(srcBasePathOf(sharedFilePath), sharedFilePath)))

\* calculateNewImportPath after its first loop gave componentBaseName
newImportPathFor(originalImportPath, currentFilePath, currentFileDir, targetDir, componentBaseName, sharedFiles) ==
  IF componentBaseName # Null
    THEN componentImportPath(currentFileDir, targetDir, componentBaseName)
  ELSE IF IsTypesImport(originalImportPath)
    THEN sharedImportPath(currentFileDir, targetDir, "@types")
  ELSE IF Includes(originalImportPath, "common/Utils") \/ EndsWith(originalImportPath, "/Utils")
    THEN sharedImportPath(currentFileDir, targetDir, "Utils")
  ELSE sharedFileImportPath(originalImportPath, currentFileDir, targetDir,
                            FirstSharedMatch(sharedFiles, originalImportPath, currentFilePath))

\* calculateNewImportPath(originalImportPath, currentFilePath, targetDir, dependencies, srcPath)
calculateNewImportPath(originalImportPath, currentFilePath, targetDir, dependencies, srcPath) ==
  newImportPathFor(originalImportPath, currentFilePath, path_dirname(currentFilePath), targetDir,
                   FirstComponentMatch(dependencies.components, originalImportPath),
                   dependencies.sharedFiles)

RECURSIVE RewriteComponentImports(_, _, _, _, _, _)
\* the loop of fixImportPaths over the local imports of one file
RewriteComponentImports(content, localImports, filePath, targetDir, dependencies, srcPath) ==
  IF Len(localImports) = 0 THEN content
  ELSE RewriteComponentImports(
         ReplaceIfNew(content, localImports[1],
                      calculateNewImportPath(localImports[1], filePath, targetDir, dependencies,
                                             srcPath)),
         Tail(localImports), filePath, targetDir, dependencies, srcPath)

RECURSIVE fixImportPathsIn(_, _, _, _, _)
\* the loop of fixImportPaths over codeFiles
fixImportPathsIn(out, codeFiles, targetDir, dependencies, srcPath) ==
  IF Len(codeFiles) = 0 THEN out
  ELSE fixImportPathsIn(
         WriteFile(out, codeFiles[1],
                   RewriteComponentImports(ReadFile(out, codeFiles[1]),
                                           extractLocalImports(ReadFile(out, codeFiles[1])),
                                           codeFiles[1], targetDir, dependencies, srcPath)),
         Tail(codeFiles), targetDir, dependencies, srcPath)

\* fixImportPaths(componentPath, targetDir, dependencies, srcPath)
fixImportPaths(out, componentPath, targetDir, dependencies, srcPath) ==
  fixImportPathsIn(out,
                   SelectSeq(findAllFilesRecursive(out, componentPath),
                             LAMBDA f : ~Includes(path_basename(f), ".stories.")),
                   targetDir, dependencies, srcPath)

\* componentBaseName when the import contains it or the name of the component
IndexBaseNameIfIn(originalImportPath, componentName, componentBaseName) ==
  IF \/ Includes(originalImportPath, componentBaseName)
     \/ Includes(originalImportPath, "components/" \o componentName)
     \/ Includes(originalImportPath, componentName)
    THEN componentBaseName
    ELSE Null

RECURSIVE FirstIndexMatch(_, _)
\* the loop of calculateSharedFileImportPath over allComponents
FirstIndexMatch(allComponents, originalImportPath) ==
  IF Len(allComponents) = 0 THEN Null
  ELSE OrElse(IndexBaseNameIfIn(originalImportPath, allComponents[1].name,
                                path_basename(allComponents[1].name)),
              FirstIndexMatch(Tail(allComponents), originalImportPath))

\* calculateSharedFileImportPath after its loop gave componentBaseName
sharedNewImportPathFor(currentDir, targetDir, componentBaseName) ==
  IF componentBaseName # Null
    THEN componentImportPath(currentDir, targetDir, componentBaseName)
    ELSE Null

\* calculateSharedFileImportPath(originalImportPath, currentFilePath, targetDir, srcPath, allComponents)
calculateSharedFileImportPath(originalImportPath, currentFilePath, targetDir, srcPath, allComponents) ==
  IF IsTypesImport(originalImportPath)
    THEN sharedImportPath(path_dirname(currentFilePath), targetDir, "@types")
    ELSE sharedNewImportPathFor(path_dirname(currentFilePath), targetDir,
                                FirstIndexMatch(allComponents, originalImportPath))

RECURSIVE RewriteSharedImports(_, _, _, _, _, _)
\* the loop of fixSharedFileImportPaths over the local imports of one file
RewriteSharedImports(content, localImports, filePath, targetDir, srcPath, allComponents) ==
  IF Len(localImports) = 0 THEN content
  ELSE RewriteSharedImports(
         ReplaceIfNew(content, localImports[1],
                      calculateSharedFileImportPath(localImports[1], filePath, targetDir, srcPath,
                                                    allComponents)),
         Tail(localImports), filePath, targetDir, srcPath, allComponents)

RECURSIVE fixSharedFileImportPathsIn(_, _, _, _, _)
\* the loop of fixSharedFileImportPaths over the files of shared/
fixSharedFileImportPathsIn(out, files, targetDir, srcPath, allComponents) ==
  IF Len(files) = 0 THEN out
  ELSE fixSharedFileImportPathsIn(
         WriteFile(out, files[1],
                   RewriteSharedImports(ReadFile(out, files[1]),
                                        extractLocalImports(ReadFile(out, files[1])),
                                        files[1], targetDir, srcPath, allComponents)),
         Tail(files), targetDir, srcPath, allComponents)

\* fixSharedFileImportPaths once sharedDir is computed
fixSharedFilesBelow(out, sharedDir, targetDir, srcPath, allComponents) ==
  IF ~PathExists(out, sharedDir) THEN out
  ELSE fixSharedFileImportPathsIn(out, findAllFilesRecursive(out, sharedDir),
                                  targetDir, srcPath, allComponents)

\* fixSharedFileImportPaths(targetDir, srcPath, allComponents)
fixSharedFileImportPaths(out, targetDir, srcPath, allComponents) ==
  fixSharedFilesBelow(out, path_join(targetDir, "shared"), targetDir, srcPath, allComponents)


\* the files fixImportPaths(componentPath, ...) reads and writes back
componentPassFiles(out, componentPath) ==
  SelectSeq(findAllFilesRecursive(out, componentPath),
            LAMBDA f : ~Includes(path_basename(f), ".stories."))

\* the files fixSharedFileImportPaths(targetDir, ...) reads and writes back
sharedPassFiles(out, targetDir) ==
  IF ~PathExists(out, path_join(targetDir, "shared")) THEN << >>
  ELSE findAllFilesRecursive(out, path_join(targetDir, "shared"))
(***************************************************************************)
(* The scan of shared/ for further component dependencies                  *)
(***************************************************************************)

\* s.replace(/\.(tsx?|jsx?)$/, '')
StripCodeExt(s) ==
  IF EndsWith(s, ".tsx") \/ EndsWith(s, ".jsx") THEN SubSeq(s, 1, Len(s) - 4)
  ELSE IF EndsWith(s, ".ts") \/ EndsWith(s, ".js") THEN SubSeq(s, 1, Len(s) - 3)
  ELSE s

\* s.replace(/\/index$/, '')
StripIndex(s) ==
  IF EndsWith(s, "/index") THEN SubSeq(s, 1, Len(s) - 6) ELSE s

RECURSIVE FirstSharedScanMatch(_, _)
\* the loop of resolveComponentDependencyFromSharedFile over allComponents
FirstSharedScanMatch(allComponents, normalizedPath) ==
  IF Len(allComponents) = 0 THEN Null
  ELSE IF \/ Includes(normalizedPath, allComponents[1].name)
          \/ Includes(allComponents[1].path, normalizedPath)
          \/ Includes(normalizedPath, allComponents[1].path)
          \/ /\ Includes(allComponents[1].name, "/")
             /\ Includes(normalizedPath, path_basename(allComponents[1].name))
    THEN allComponents[1].name
    ELSE FirstSharedScanMatch(Tail(allComponents), normalizedPath)

\* the table "patterns" of resolveComponentDependencyFromSharedFile
ScanPatterns ==
  << "Form/Inputs/Select", "Form/Inputs/TextField", "Form/Inputs/Autocomplete",
     "Buttons/Button", "Modals/Modal", "Navigation/NavBar" >>

RECURSIVE FirstPatternMatch(_, _, _)
\* the loop over patterns: the first one the path contains and the index holds
FirstPatternMatch(patterns, allComponents, normalizedPath) ==
  IF Len(patterns) = 0 THEN Null
  ELSE IF Includes(normalizedPath, patterns[1]) /\ InIndex(allComponents, patterns[1])
    THEN patterns[1]
    ELSE FirstPatternMatch(Tail(patterns), allComponents, normalizedPath)

\* the group of /components\/(.+?)\/[^\/]+$/ in `rest`, the text after
\* "components/", whose last "/" is at position j
CandidateUpTo(rest, j) ==
  IF j > 1 /\ j < Len(rest) THEN SubSeq(rest, 1, j - 1) ELSE Null

\* importPath.match(/components\/(.+?)\/[^\/]+$/)[1], Null without a match
CandidateAfter(rest) ==
  CandidateUpTo(rest, LastIndexOf(rest, "/"))

\* the componentCandidate of resolveComponentDependencyFromSharedFile
ComponentsPathCandidate(importPath) ==
  IF ~Includes(importPath, "components/") THEN Null
  ELSE CandidateAfter(SubSeq(importPath, IndexOf(importPath, "components/") + 11, Len(importPath)))

\* allComponents.find(c => c.name === componentCandidate)
CandidateIfInIndex(allComponents, componentCandidate) ==
  IF componentCandidate # Null /\ InIndex(allComponents, componentCandidate)
    THEN componentCandidate
    ELSE Null

\* resolveComponentDependencyFromSharedFile once normalizedPath is computed
resolveFromNormalized(importPath, normalizedPath, allComponents) ==
  OrElse(FirstSharedScanMatch(allComponents, normalizedPath),
         OrElse(FirstPatternMatch(ScanPatterns, allComponents, normalizedPath),
                CandidateIfInIndex(allComponents, ComponentsPathCandidate(importPath))))

\* resolveComponentDependencyFromSharedFile(importPath, currentFilePath, srcPath, allComponents)
resolveComponentDependencyFromSharedFile(importPath, currentFilePath, srcPath, allComponents) ==
  IF ~StartsWith(importPath, ".") \/ Includes(importPath, "@types") THEN Null
  ELSE resolveFromNormalized(
         importPath,
         path_relative(srcPath, path_resolve(path_dirname(currentFilePath),
                                             StripIndex(StripCodeExt(importPath)))),
         allComponents)

\* foundDependencies.push(componentDep) under its three conditions
AddFound(found, componentDep, downloaded) ==
  IF componentDep # Null /\ componentDep \notin downloaded /\ ~SeqIncludes(found, componentDep)
    THEN Append(found, componentDep)
    ELSE found

RECURSIVE ScanImports(_, _, _, _, _, _)
\* the loop of downloadSharedFileDependencies over the local imports of one file
ScanImports(localImports, filePath, srcPath, allComponents, downloaded, found) ==
  IF Len(localImports) = 0 THEN found
  ELSE ScanImports(Tail(localImports), filePath, srcPath, allComponents, downloaded,
                   AddFound(found,
                            resolveComponentDependencyFromSharedFile(localImports[1], filePath,
                                                                     srcPath, allComponents),
                            downloaded))

RECURSIVE ScanFiles(_, _, _, _, _, _)
\* the loop of downloadSharedFileDependencies over the files of shared/
ScanFiles(out, files, srcPath, allComponents, downloaded, found) ==
  IF Len(files) = 0 THEN found
  ELSE ScanFiles(out, Tail(files), srcPath, allComponents, downloaded,
                 ScanImports(extractLocalImports(ReadFile(out, files[1])), files[1], srcPath,
                             allComponents, downloaded, found))

\* the foundDependencies of downloadSharedFileDependencies once sharedDir is computed
foundBelow(out, sharedDir, srcPath, allComponents, downloaded) ==
  IF ~PathExists(out, sharedDir) THEN << >>
  ELSE ScanFiles(out, findAllFilesRecursive(out, sharedDir), srcPath, allComponents,
                 downloaded, << >>)

\* the foundDependencies of downloadSharedFileDependencies
foundDependencies(out, targetDir, srcPath, allComponents, downloaded) ==
  foundBelow(out, path_join(targetDir, "shared"), srcPath, allComponents, downloaded)

(***************************************************************************)
(* The not-found error of downloadComponentWithDependencies                *)
(***************************************************************************)

\* the cap of availableComponents.slice(0, 10) and of getComponentSuggestions
SuggestionCap == 10

\* comp.toLowerCase().includes(name.toLowerCase()) ||
\* name.toLowerCase().includes(comp.toLowerCase())
IsSimilar(lowerComp, lowerName) ==
  Includes(lowerComp, lowerName) \/ Includes(lowerName, lowerComp)

\* similarComponents: the names that contain the query or that it contains,
\* case-insensitively
similarComponents(availableComponents, name) ==
  SelectSeq(availableComponents, LAMBDA comp : IsSimilar(ToLowerCase(comp), ToLowerCase(name)))

\* the Error built from availableComponents and similarComponents
NotFoundWith(name, availableComponents, similar) ==
  [type |-> "NotFound",
   name |-> name,
   heading |-> IF Len(similar) > 0 THEN "Did you mean one of these?"
               ELSE IF Len(availableComponents) > 0 THEN "Available components:"
               ELSE "",
   suggestions |-> IF Len(similar) > 0 THEN similar
                   ELSE SliceTo(availableComponents, SuggestionCap)]

\* the Error thrown when the component is not in the index: the names its
\* message lists, under "Did you mean one of these?" or "Available components:"
NotFoundError(allComponents, name) ==
  NotFoundWith(name, Names(allComponents), similarComponents(Names(allComponents), name))

\* the Error of a failing fs.copy
CopyError(path) ==
  [type |-> "IO", name |-> path, heading |-> "", suggestions |-> << >>]

\* the rejection of ensureRepositoryCache / checkoutVersion
GitError ==
  [type |-> "Git", name |-> "", heading |-> "", suggestions |-> << >>]

(***************************************************************************)
(* The suggestions of the download command (src/src/commands/download.ts)  *)
(***************************************************************************)

\* Math.min of three numbers
Min3(x, y, z) ==
  IF x <= y /\ x <= z THEN x ELSE IF y <= z THEN y ELSE z

RECURSIVE LevRow(_, _, _, _)
\* one row of the matrix of levenshtein: `row` holds the cells 0..Len(row)-1 of
\* the row of the character ai, `above` is the row before it
LevRow(above, row, ai, b) ==
  IF Len(row) = Len(b) + 1 THEN row
  ELSE LevRow(above,
              Append(row, Min3(above[Len(row) + 1] + 1,
                               row[Len(row)] + 1,
                               above[Len(row)] + (IF ai = SubSeq(b, Len(row), Len(row)) THEN 0 ELSE 1))),
              ai, b)

RECURSIVE LevRows(_, _, _, _)
\* the rows i..a.length of the matrix, and from the last one matrix[a.length][b.length]
LevRows(a, b, i, above) ==
  IF i > Len(a) THEN above[Len(b) + 1]
  ELSE LevRows(a, b, i + 1, LevRow(above, << i >>, SubSeq(a, i, i), b))

\* levenshtein(a, b)
levenshtein(a, b) ==
  LevRows(a, b, 1, [j \in 1..(Len(b) + 1) |-> j - 1])

RECURSIVE SortByDist(_)
\* r put behind the entries of a sorted sequence that are not farther than it
InsertByDist(sorted, r) ==
  SelectSeq(sorted, LAMBDA s : s.dist <= r.dist) \o << r >> \o
    SelectSeq(sorted, LAMBDA s : s.dist > r.dist)

\* .sort((a, b) => a.dist - b.dist): ascending and stable
SortByDist(ranked) ==
  IF Len(ranked) = 0 THEN << >>
  ELSE InsertByDist(SortByDist(SubSeq(ranked, 1, Len(ranked) - 1)), ranked[Len(ranked)])

\* the fallback of getComponentSuggestions: the names ranked by their distance
rankedSuggestions(names, lowerQuery) ==
  Names(SliceTo(SortByDist([i \in 1..Len(names) |->
                              [name |-> names[i],
                               dist |-> levenshtein(ToLowerCase(names[i]), lowerQuery)]]),
                SuggestionCap))

\* getComponentSuggestions once substringMatches is computed
suggestionsWith(names, lowerQuery, substringMatches) ==
  IF Len(substringMatches) > 0
    THEN SliceTo(substringMatches, SuggestionCap)
    ELSE rankedSuggestions(names, lowerQuery)

\* getComponentSuggestions(names, query)
getComponentSuggestions(names, query) ==
  suggestionsWith(names, ToLowerCase(query),
                  SelectSeq(names, LAMBDA n : Includes(ToLowerCase(n), ToLowerCase(query))))


(***************************************************************************)
(* The GitService of src/services/git: DependencyAnalysisService,          *)
(* ImportPathService and ComponentDownloadService                          *)
(***************************************************************************)

\* path.join(process.cwd(), 'components')
CwdComponents == path_join(Cwd, "components")

\* DependencyAnalysisService.findAllFiles(dir): the files below dir that match
\* /\.(tsx?|jsx?)$/
findAllFiles(out, dir) ==
  Paths(SelectSeq(out, LAMBDA f : StartsWith(f.path, dir \o "/") /\
                    (EndsWith(f.path, ".tsx") \/ EndsWith(f.path, ".ts") \/
                     EndsWith(f.path, ".jsx") \/ EndsWith(f.path, ".js"))))

\* importPath.replace(/\.(tsx?|jsx?)$/, '') on each target
cleanTargets(statements) ==
  [i \in 1..Len(statements) |-> StripCodeExt(statements[i].target)]

\* DependencyAnalysisService.extractLocalImports(content): the targets of the
\* "from" imports that start with a dot, without their extension
cleanImports(content) ==
  cleanTargets(SelectSeq(content, LAMBDA st : st.kind = "from" /\ IsLocalTarget(st.target)))

\* if the last part is 'index' it is dropped
DropIndex(componentParts) ==
  IF Len(componentParts) > 0 /\ componentParts[Len(componentParts)] = "index"
    THEN SubSeq(componentParts, 1, Len(componentParts) - 1)
    ELSE componentParts

\* if the last part is the same as the one before it is dropped
DropRepeated(componentParts) ==
  IF Len(componentParts) >= 2 /\
     componentParts[Len(componentParts)] = componentParts[Len(componentParts) - 1]
    THEN SubSeq(componentParts, 1, Len(componentParts) - 1)
    ELSE componentParts

\* the component directory an import inside the components directory names
normalizedComponentName(relativeToComponents) ==
  JoinWith(DropRepeated(DropIndex(Split(StripCodeExt(relativeToComponents), "/"))), "/")

\* relativeToProject.replace(/^src[\/]/, '')
StripSrcPrefix(s) ==
  IF StartsWith(s, "src/") THEN SubSeq(s, 5, Len(s)) ELSE s

\* the shared path an import outside the components directory names
sharedPathOf(absolutePath) ==
  StripCodeExt(StripSrcPrefix(path_relative(Cwd, absolutePath)))

\* if (!list.includes(x)) list.push(x)
PushOnce(list, x) ==
  IF SeqIncludes(list, x) THEN list ELSE Append(list, x)

\* the two branches of analyzeDependencies for an import that starts with ../
classifyImport(dependencies, absolutePath, relativeToComponents) ==
  IF ~StartsWith(relativeToComponents, "..")
    THEN [dependencies EXCEPT !.components = PushOnce(@, normalizedComponentName(relativeToComponents))]
    ELSE [dependencies EXCEPT !.sharedFiles = PushOnce(@, sharedPathOf(absolutePath))]

\* the body of the loop of analyzeDependencies over the imports of a file
analyzeImport(dependencies, file, importPath) ==
  IF StartsWith(importPath, "./") THEN dependencies
  ELSE IF StartsWith(importPath, "../")
    THEN classifyImport(dependencies, path_resolve(path_dirname(file), importPath),
                        path_relative(CwdComponents, path_resolve(path_dirname(file), importPath)))
    ELSE dependencies

RECURSIVE analyzeImports(_, _, _)
analyzeImports(dependencies, file, imports) ==
  IF Len(imports) = 0 THEN dependencies
  ELSE analyzeImports(analyzeImport(dependencies, file, imports[1]), file, Tail(imports))

RECURSIVE analyzeFiles(_, _, _)
analyzeFiles(dependencies, out, files) ==
  IF Len(files) = 0 THEN dependencies
  ELSE analyzeFiles(analyzeImports(dependencies, files[1], cleanImports(ReadFile(out, files[1]))),
                    out, Tail(files))

\* dependencies.components.filter(dep => dep !== baseComponentPath)
withoutSelfReferences(dependencies, baseComponentPath) ==
  [dependencies EXCEPT !.components = SelectSeq(@, LAMBDA dep : dep # baseComponentPath)]

\* DependencyAnalysisService.analyzeDependencies(componentPath), on the files
\* of the output directory
analyzeDependencies(out, componentPath) ==
  withoutSelfReferences(analyzeFiles(NoDeps, out, findAllFiles(out, componentPath)),
                        path_relative(CwdComponents, componentPath))

\* ImportPathService.updateImportPaths on one import target. The first
\* replace writes `from '../<importPath>'` for a target ../<importPath>: the
\* target stays. The second turns ./<componentName>/<rest> into ./<rest>.
updateImportTarget(target, componentName) ==
  IF /\ StartsWith(target, "./")
     /\ Len(target) > 2
     /\ ~StartsWith(target, "./components/")
     /\ StartsWith(target, "./" \o componentName \o "/")
    THEN "./" \o SubSeq(target, Len(componentName) + 4, Len(target))
    ELSE target

\* ImportPathService.updateImportPaths(content, componentName)
updateImportPaths(content, componentName) ==
  [i \in 1..Len(content) |->
     IF content[i].kind = "from"
       THEN [content[i] EXCEPT !.target = updateImportTarget(@, componentName)]
       ELSE content[i]]

\* the loop "for (const file of files) await this.updateImportPaths(file, name)"
\* over findAllFiles(targetPath)
updateFiles(out, targetPath, componentName) ==
  [i \in 1..Len(out) |->
     IF SeqIncludes(findAllFiles(out, targetPath), out[i].path)
       THEN [out[i] EXCEPT !.imports = updateImportPaths(@, componentName)]
       ELSE out[i]]

\* the filter of fs.copy in ComponentDownloadService.downloadComponent
copyFilter(basename) ==
  /\ ~StartsWith(basename, ".")
  /\ ~Includes(basename, "node_modules")
  /\ ~Includes(basename, ".stories.")
  /\ ~Includes(basename, ".mdx")

\* fs.copy asks the filter about the source and about every entry on the way
\* to a file below it
passesFilter(from, p) ==
  /\ copyFilter(path_basename(from))
  /\ \A seg \in Range(Split(SubSeq(p, Len(from) + 2, Len(p)), "/")) : copyFilter(seg)

\* fs.copy(from, to, { filter }) of a directory
copyFiltered(repo, out, from, to) ==
  WriteFiles(out, SelectSeq(FilesBelow(repo, from), LAMBDA f : passesFilter(from, f.path)),
             from, to)

\* dependency.startsWith('.') ? path.resolve(path.dirname(componentName), dependency) : dependency
dependencyPathOf(componentName, dependency) ==
  IF StartsWith(dependency, ".")
    THEN path_resolve(path_dirname(componentName), dependency)
    ELSE dependency

\* the copy of a component directory and the update of the imports of its files
copyAndUpdate(repo, out, sourcePath, targetPath, componentName) ==
  updateFiles(copyFiltered(repo, out, sourcePath, targetPath), targetPath, componentName)

\* one turn of "for (const dependency of dependencies)": a dependency whose
\* source does not exist is left out, the others are copied and returned.
\* s holds the output directory, the downloadedDependencies and the copies made.
downloadDependency(repo, s, outputDir, dependencyPath) ==
  IF ~PathExists(repo, path_join(ComponentsPath, dependencyPath)) THEN s
  ELSE [out |-> copyAndUpdate(repo, s.out, path_join(ComponentsPath, dependencyPath),
                              path_join(outputDir, dependencyPath), dependencyPath),
        dependencies |-> Append(s.dependencies, dependencyPath),
        copied |-> Append(s.copied, dependencyPath)]

RECURSIVE downloadDependencies(_, _, _, _, _)
downloadDependencies(repo, s, componentName, outputDir, dependencies) ==
  IF Len(dependencies) = 0 THEN s
  ELSE downloadDependencies(
         repo,
         downloadDependency(repo, s, outputDir, dependencyPathOf(componentName, dependencies[1])),
         componentName, outputDir, Tail(dependencies))

\* the candidates for a shared path: itself, the file variants, the index variants
sharedCandidates(baseSharedPath) ==
  << baseSharedPath,
     baseSharedPath \o ".tsx", baseSharedPath \o ".ts", baseSharedPath \o ".jsx",
     baseSharedPath \o ".js",
     path_join(baseSharedPath, "index.tsx"), path_join(baseSharedPath, "index.ts"),
     path_join(baseSharedPath, "index.jsx"), path_join(baseSharedPath, "index.js") >>

\* the copy of the shared path found at sourceSharedPath, Null when none was
copyShared(repo, out, projectRoot, sourceSharedPath) ==
  IF sourceSharedPath = Null THEN out
  ELSE IF IsDirectory(repo, sourceSharedPath)
    THEN copyFiltered(repo, out, sourceSharedPath,
                      path_join(projectRoot, path_relative(SrcPath, sourceSharedPath)))
    ELSE Copy(repo, out, sourceSharedPath,
              path_join(projectRoot, path_relative(SrcPath, sourceSharedPath)))

RECURSIVE copySharedFiles(_, _, _, _)
\* the loop "for (const sharedRelPath of sharedFiles)"
copySharedFiles(repo, out, projectRoot, sharedFiles) ==
  IF Len(sharedFiles) = 0 THEN out
  ELSE copySharedFiles(
         repo,
         copyShared(repo, out, projectRoot,
                    FirstExisting(repo, sharedCandidates(path_join(SrcPath, sharedFiles[1])), Null)),
         projectRoot, Tail(sharedFiles))

\* the result of ComponentDownloadService.downloadComponent once the
\* dependencies were copied: the shared files are copied too
withSharedFiles(repo, s, projectRoot, sharedFiles) ==
  [s EXCEPT !.out = copySharedFiles(repo, @, projectRoot, sharedFiles)]

\* ComponentDownloadService.downloadComponent after the copy of the component
\* to targetPath gave out1 and the analysis gave `analysis`
downloadAnalyzed(repo, out1, analysis, componentName, outputDir, targetPath) ==
  withSharedFiles(
    repo,
    downloadDependencies(repo,
                         [out |-> updateFiles(out1, targetPath, componentName),
                          dependencies |-> << >>,
                          copied |-> << componentName >>],
                         componentName, outputDir, analysis.components),
    path_dirname(outputDir), analysis.sharedFiles)

\* ComponentDownloadService.downloadComponent after the copy of the component
downloadCopied(repo, out1, componentName, outputDir, targetPath) ==
  downloadAnalyzed(repo, out1, analyzeDependencies(out1, targetPath), componentName, outputDir,
                   targetPath)

\* ComponentDownloadService.downloadComponent(componentName, outputDir) for a
\* component whose source exists: the output directory, the dependencies
\* returned and the components copied, in order
downloadExisting(repo, out, componentName, outputDir) ==
  downloadCopied(repo,
                 copyFiltered(repo, out, path_join(ComponentsPath, componentName),
                              path_join(outputDir, componentName)),
                 componentName, outputDir, path_join(outputDir, componentName))
(***************************************************************************)
(* The repositories and requests the model is run on                       *)
(***************************************************************************)

\* a file whose import statements are all of the form import x from 't'
File(p, targets) ==
  [path |-> p, imports |-> [i \in 1..Len(targets) |-> [kind |-> "from", target |-> targets[i]]]]

\* a component library with nested components, shared files and a shared file
\* that imports a component
RepoLibrary ==
  << File("/r/src/components/README.md", << >>),
     File("/r/src/components/Alert/Alert.tsx", << "react", "./Alert.styles" >>),
     File("/r/src/components/Alert/Alert.styles.ts", << >>),
     File("/r/src/components/Alert/Alert.stories.tsx", << "./Alert" >>),
     File("/r/src/components/Buttons/Button/Button.tsx",
          << "../../../common/Utils/format", "../../Alert/Alert" >>),
     File("/r/src/components/Buttons/Button/Button.test.tsx", << "./Button" >>),
     File("/r/src/components/Form/Inputs/Select/Select.tsx",
          << "../../../Buttons/Button/Button", "../../../../common/helpers", "../../../../@types" >>),
     File("/r/src/components/Modals/Modal/Modal.tsx", << "react" >>),
     File("/r/src/common/Utils/format.ts", << "../../components/Modals/Modal/Modal", "../../@types" >>),
     File("/r/src/common/helpers.ts", << >>),
     File("/r/src/@types/index.d.ts", << >>) >>

\* two components that import each other, and one that imports its own files
RepoCycle ==
  << File("/r/src/components/Alert/Alert.tsx", << "../Modal/Modal" >>),
     File("/r/src/components/Modal/Modal.tsx", << "../Alert/Alert" >>),
     File("/r/src/components/Card/Card.tsx", << "./Card.styles", "../Card/utils" >>),
     File("/r/src/components/Card/Card.styles.ts", << >>),
     File("/r/src/components/Card/utils.ts", << >>) >>

\* a diamond: Page imports Header and Footer, which both import Link
RepoDiamond ==
  << File("/r/src/components/Page/Page.tsx", << "../Header/Header", "../Footer/Footer" >>),
     File("/r/src/components/Header/Header.tsx", << "../Link/Link" >>),
     File("/r/src/components/Footer/Footer.tsx", << "../Link/Link" >>),
     File("/r/src/components/Link/Link.tsx", << >>) >>

\* two components with the same basename, and a parent directory that is a
\* component itself
RepoCollision ==
  << File("/r/src/components/Form/Form.tsx",
          << "./Inputs/Select/Select", "../Other/Select/Select" >>),
     File("/r/src/components/Form/Inputs/Select/Select.tsx", << "./options" >>),
     File("/r/src/components/Form/Inputs/Select/options.ts", << >>),
     File("/r/src/components/Other/Select/Select.tsx", << >>) >>

\* a component that imports a file of its own whose name holds the name of a
\* dependency, and shared files outside common/ and below a nested common/
RepoTheme ==
  << File("/r/src/components/Badge/Badge.tsx",
          << "../Tag/Tag", "./TagList", "../../lib/common/colors", "../../uncommon/theme" >>),
     File("/r/src/components/Badge/TagList.tsx", << >>),
     File("/r/src/components/Tag/Tag.tsx", << >>),
     File("/r/src/lib/common/colors.ts", << >>),
     File("/r/src/uncommon/theme.ts", << >>) >>

\* the letters that name the components of RepoIcons
IconLetters ==
  << "A", "B", "C", "D", "E", "F", "G", "H", "I", "J", "K" >>

\* more components with a name in common than an error message should list
RepoIcons ==
  [i \in 1..Len(IconLetters) |->
     File("/r/src/components/Icon" \o IconLetters[i] \o "/Icon" \o IconLetters[i] \o ".tsx", << >>)]

\* directories that hold test, spec and story files, three of them nothing
\* else, a directory whose name starts with a dot, and shared files, one of
\* them in a directory next to components whose name starts like it
RepoMarkers ==
  << File("/r/src/components/Widget/Widget.tsx",
          << "react", "../../components-shared/tokens", "../../hooks/useToggle" >>),
     File("/r/src/components/Widget/Widget.test.tsx", << "./Widget" >>),
     File("/r/src/components/Widget/Widget.spec.tsx", << "./Widget" >>),
     File("/r/src/components/Widget/Widget.stories.tsx", << "./Widget" >>),
     File("/r/src/components/Widget/docs/usage.stories.ts", << >>),
     File("/r/src/components/Checks/Widget.spec.tsx", << "../Widget/Widget" >>),
     File("/r/src/components/Smoke/Widget.test.tsx", << "../Widget/Widget" >>),
     File("/r/src/components/Showcase/Widget.stories.tsx", << "../Widget/Widget" >>),
     File("/r/src/components/.internal/Draft/Draft.tsx", << >>),
     File("/r/src/components/Panel/Panel.styles.ts", << >>),
     File("/r/src/components/Panel/Panel.tsx", << "../Widget/Widget", "../../hooks/useToggle" >>),
     File("/r/src/components-shared/tokens.ts", << >>),
     File("/r/src/hooks/useToggle.ts", << >>) >>

\* a chain through shared files: a shared file of Menu imports Popup, and a
\* shared file of Popup imports Trap, whose shared file in common/Utils
\* imports a file next to it with a name that starts like a component's
RepoChain ==
  << File("/r/src/components/Menu/Menu.tsx", << "../../utils/keys" >>),
     File("/r/src/components/Popup/Popup.tsx", << "../../utils/focus" >>),
     File("/r/src/components/Trap/Trap.tsx", << "../../common/Utils/position" >>),
     File("/r/src/utils/keys.ts", << "../components/Popup/Popup" >>),
     File("/r/src/utils/focus.ts", << "../components/Trap/Trap" >>),
     File("/r/src/common/Utils/position.ts", << "./TrapBounds", "./limits" >>),
     File("/r/src/common/Utils/TrapBounds.ts", << >>),
     File("/r/src/common/Utils/limits.ts", << >>) >>

Repos ==
  { RepoLibrary, RepoCycle, RepoDiamond, RepoCollision, RepoTheme, RepoIcons, RepoMarkers,
    RepoChain }

\* names asked for that no repository holds
MissingNames ==
  { "Alret", "Modal/Extra", "Icon" }

\* the values of --output-dir: the default of downloadComponent and an absolute one
OutputDirs ==
  { "./components", "/o/ui" }

\* the tag asked for with --version in the runs that ask for one
SomeVersion == "v1.2.0"

\* what fs.copy is asked to copy from a repository with index idx: the
\* component directories, the shared files and the @types directory
CopySourcesOf(r, idx) ==
  { idx[i].path : i \in 1..Len(idx) }
    \cup UNION { Range(findAllDependencies(r, {}, idx[i].path, SrcPath, idx).sharedFiles)
                 : i \in 1..Len(idx) }
    \cup { path_join(SrcPath, "@types") }

\* what fs.copy is asked to copy from a repository
CopySources(r) ==
  CopySourcesOf(r, findAllComponents(r, ComponentsPath))

\* the files whose read can fail during the analysis of repository r: the
\* code files directly in its component directories
ReadSourcesOf(r, idx) ==
  { f.path : f \in { g \in Range(r) : \E i \in 1..Len(idx) :
                                        /\ path_dirname(g.path) = idx[i].path
                                        /\ IsCodeFile(path_basename(g.path)) } }

\* the files whose read can fail in repository r
ReadSources(r) ==
  ReadSourcesOf(r, findAllComponents(r, ComponentsPath))

\* the number of reads that fail in one run
MaxReadFailures == 1

\* the number of copies that fail in one run
MaxCopyFailures == 1

\* the depth of the recursion the model follows; a run that needs more is
\* recorded as status "overflow"
MaxDepth == 6

(***************************************************************************)
(* The download command and the download orchestrator:                     *)
(* downloadCommand (src/src/commands/download.ts) calling                  *)
(* GitService.downloadComponent (src/src/services/git-service.ts)          *)
(***************************************************************************)

VARIABLES
  repo,                 \* the checkout in the cache
  unreadable,           \* the files whose read fails
  failCopy,             \* the sources whose fs.copy fails
  environment,          \* [configValid, connected, git]: what the command finds around it
  options,              \* [tests, includeStories, force]: the flags of the command line
  user,                 \* [useSuggestion, overwrite]: the answers to the prompts
  request,              \* [name, version, outputDir]: the arguments of downloadComponent
  status,               \* start, idle, running, scanning, returned, failed, overflow, done
  attempt,              \* 1, and 2 once the suggested component is downloaded instead
  stack,                \* the active calls of downloadComponentWithDependencies
  downloadedComponents, \* the Set created by downloadComponent
  out,                  \* the files of the output directory
  materialized,         \* the components copied and rewritten so far, in order
  scan,                 \* foundDependencies of downloadSharedFileDependencies and the loop index
  result,               \* the value downloadComponent resolves to, or the error it rejects with
  warnings,             \* the copies that failed and were only logged
  work,                 \* the kinds of component work done: cache, discovery, write
  exitCode,             \* the exit code of the process
  outBefore,            \* the output directory as the command found it
  rewrites,             \* the files the rewrite passes wrote back, pass after pass
  calls                 \* the invocations of downloadComponent of the GitService of src/services/git

vars ==
  << repo, unreadable, failCopy, environment, options, user, request, status, attempt, stack,
     downloadedComponents, out, materialized, scan, result, warnings, work, exitCode, rewrites,
     calls, outBefore >>

\* what a run does not change: the repository, the failures and the inputs
given ==
  << repo, unreadable, failCopy, environment, options, user, outBefore >>

\* everything healthy: a valid configuration, SSH access, git commands that succeed
EnvOk == [configValid |-> TRUE, connected |-> TRUE, git |-> "ok"]

\* the environments of the runs: healthy, or with one thing failing
Environments ==
  { EnvOk,
    [EnvOk EXCEPT !.configValid = FALSE],
    [EnvOk EXCEPT !.connected = FALSE],
    [EnvOk EXCEPT !.git = "cacheFails"],
    [EnvOk EXCEPT !.git = "checkoutFails"] }

\* no flag given: --no-tests absent, --include-stories absent, --force absent
DefaultOptions == [tests |-> TRUE, includeStories |-> FALSE, force |-> FALSE]

Options == [tests : BOOLEAN, includeStories : BOOLEAN, force : BOOLEAN]

\* the defaults of the two confirm prompts
DefaultUser == [useSuggestion |-> TRUE, overwrite |-> FALSE]

Users == [useSuggestion : BOOLEAN, overwrite : BOOLEAN]

\* the run with nothing failing, no flag given and an empty output directory
PlainRun ==
  [environment |-> EnvOk, options |-> DefaultOptions, user |-> DefaultUser, failCopy |-> {},
   unreadable |-> {}, version |-> "", existing |-> FALSE, earlier |-> FALSE]

\* the runs made on repository r: the plain one, and those in which one of
\* the environment, the version, the flags, the answers, the copies and the
\* output directory departs from it
Scenarios(r) ==
  { [PlainRun EXCEPT !.environment = e] : e \in Environments \ {[EnvOk EXCEPT !.git = "checkoutFails"]} }
    \cup { [PlainRun EXCEPT !.version = SomeVersion, !.environment.git = g] : g \in {"ok", "checkoutFails"} }
    \cup { [PlainRun EXCEPT !.options = o] : o \in Options }
    \cup { [PlainRun EXCEPT !.user = u] : u \in Users }
    \cup { [PlainRun EXCEPT !.existing = TRUE, !.user.overwrite = o, !.options.force = f]
             : o \in BOOLEAN, f \in BOOLEAN }
    \cup { [PlainRun EXCEPT !.earlier = TRUE, !.user.overwrite = o, !.options.force = f]
             : o \in BOOLEAN, f \in BOOLEAN }
    \cup { [PlainRun EXCEPT !.failCopy = f] :
             f \in { g \in SUBSET CopySources(r) : Cardinality(g) <= MaxCopyFailures } }
    \cup { [PlainRun EXCEPT !.unreadable = u] :
             u \in { g \in SUBSET ReadSources(r) : Cardinality(g) <= MaxReadFailures } }

\* no value returned and no error thrown yet
NoResult == [type |-> "none", name |-> "", heading |-> "", suggestions |-> << >>]

\* a call of downloadComponentWithDependencies(name, ...) that has not run yet
NewFrame(name) ==
  [name |-> name, pc |-> "enter", allComponents |-> << >>, deps |-> NoDeps, i |-> 1]

\* const targetDir = outputDir || './components'
TargetDir == request.outputDir

\* the target path as it would be if the nested source path were kept
targetPathNested(targetDir, name) ==
  path_join(targetDir, name)

\* path.join(targetDir, path.basename(name))
targetPathOf(targetDir, name) ==
  path_join(targetDir, path_basename(name))

\* the components asked for in repository r: every name of its index and
\* some that it does not hold, into every output directory
Requests(r, version) ==
  [name : Range(Names(findAllComponents(r, ComponentsPath))) \cup MissingNames,
   version : {version},
   outputDir : OutputDirs]

\* an output directory that already holds something at the place the command
\* looks for the component: path.join(outputDir, targetComponent)
ExistingOutput(outputDir, name) ==
  << [path |-> path_join(path_join(outputDir, name), "notes.md"), imports |-> << >>] >>

\* an output directory that holds files of earlier runs: one in the directory
\* the component is copied to, and a component Legacy with a story and a test
EarlierOutput(outputDir, name) ==
  << [path |-> path_join(targetPathOf(outputDir, name), "local.ts"), imports |-> << >>],
     [path |-> path_join(outputDir, "Legacy/Legacy.tsx"), imports |-> << >>],
     [path |-> path_join(outputDir, "Legacy/Legacy.stories.tsx"), imports |-> << >>],
     [path |-> path_join(outputDir, "Legacy/Legacy.test.tsx"), imports |-> << >>] >>

\* the state a scenario starts in
InitWith(sc) ==
  /\ environment = sc.environment
  /\ options = sc.options
  /\ user = sc.user
  /\ failCopy = sc.failCopy
  /\ unreadable = sc.unreadable
  /\ request \in Requests(repo, sc.version)
  /\ out = (IF sc.existing THEN ExistingOutput(request.outputDir, request.name) ELSE << >>)
             \o (IF sc.earlier THEN EarlierOutput(request.outputDir, request.name) ELSE << >>)
  /\ outBefore = out

Init ==
  /\ repo \in Repos
  /\ \E sc \in Scenarios(repo) : InitWith(sc)
  /\ status = "start"
  /\ attempt = 1
  /\ stack = << >>
  /\ downloadedComponents = {}
  /\ materialized = << >>
  /\ scan = [found |-> << >>, i |-> 1]
  /\ result = NoResult
  /\ warnings = {}
  /\ work = {}
  /\ exitCode = 0
  /\ rewrites = << >>
  /\ calls = << >>

\* downloadCommand up to its call of gitService.downloadComponent: the
\* configuration, the connectivity test, the update of the cache and the
\* question about an existing component
Command ==
  /\ status = "start"
  /\ IF ~environment.configValid \/ ~environment.connected
       THEN /\ status' = "done"
            /\ UNCHANGED << work, exitCode >>
       ELSE IF environment.git = "cacheFails"
         THEN /\ status' = "done"
              /\ work' = work \cup {"cache"}
              /\ exitCode' = 1
         ELSE /\ status' = IF /\ PathExists(out, path_join(request.outputDir, request.name))
                              /\ ~options.force
                              /\ ~user.overwrite
                             THEN "done"
                             ELSE "idle"
              /\ work' = work \cup {"cache"}
              /\ exitCode' = exitCode
  /\ UNCHANGED << given, calls, rewrites, request, attempt, stack, downloadedComponents, out,
                  materialized, scan,
                  result, warnings >>

\* the rejection of ensureRepositoryCache / checkoutVersion
GitFails ==
  \/ environment.git = "cacheFails"
  \/ request.version # "" /\ environment.git = "checkoutFails"

\* downloadComponent(name, version, outputDir) up to its first call of
\* downloadComponentWithDependencies
Download ==
  /\ status = "idle"
  /\ IF GitFails
       THEN /\ status' = "failed"
            /\ stack' = stack
            /\ result' = GitError
       ELSE /\ status' = "running"
            /\ stack' = << NewFrame(request.name) >>
            /\ result' = result
  /\ downloadedComponents' = {}
  /\ work' = work \cup {"cache"}
  /\ UNCHANGED << given, calls, rewrites, request, attempt, out, materialized, scan, warnings, exitCode >>

\* the value downloadComponent resolves to
ReturnValue ==
  [type |-> "path", name |-> targetPathOf(TargetDir, request.name),
   heading |-> "", suggestions |-> << >>]

\* the call on top of the stack
Top == stack[Len(stack)]

\* the stack after the call on top of it returned
Popped == SubSeq(stack, 1, Len(stack) - 1)

\* an Error of downloadComponentWithDependencies as it would be handled if
\* each call caught it: a warning, and only the failing call is abandoned
ThrowSkipping(error, logged) ==
  /\ stack' = Popped
  /\ warnings' = warnings \cup logged \cup {error.name}
  /\ UNCHANGED << status, result >>

\* an Error leaves downloadComponentWithDependencies: every active call is
\* abandoned; downloadSharedFileDependencies catches it and only warns, and
\* downloadComponent then returns, while in the first expansion it rejects.
\* `logged` are the copies that failed and were caught before the Error.
Throw(error, logged) ==
  /\ stack' = << >>
  /\ IF status = "scanning"
       THEN /\ status' = "returned"
            /\ result' = ReturnValue
            /\ warnings' = warnings \cup logged \cup {error.name}
       ELSE /\ status' = "failed"
            /\ result' = error
            /\ warnings' = warnings \cup logged

\* the guard, the lookup and the analysis of downloadComponentWithDependencies
\* for the call `top`, with the index findAllComponents returns
EnterWith(top, allComponents) ==
  IF top.name \in downloadedComponents
    THEN /\ stack' = Popped
         /\ UNCHANGED << status, result, warnings, work >>
    ELSE /\ work' = work \cup {"discovery"}
         /\ IF ~InIndex(allComponents, top.name)
              THEN Throw(NotFoundError(allComponents, top.name), {})
              ELSE /\ stack' = [stack EXCEPT ![Len(stack)] =
                         [top EXCEPT !.pc = "deps",
                                     !.allComponents = allComponents,
                                     !.deps = findAllDependencies(repo, unreadable,
                                                FindComponent(allComponents, top.name).path,
                                                SrcPath, allComponents)]]
                   /\ UNCHANGED << status, result, warnings >>

\* the start of downloadComponentWithDependencies
Enter ==
  /\ status \in {"running", "scanning"}
  /\ Len(stack) > 0
  /\ Top.pc = "enter"
  /\ EnterWith(Top, findAllComponents(repo, ComponentsPath))
  /\ UNCHANGED << given, calls, rewrites, request, attempt, downloadedComponents, out,
                  materialized, scan,
                  exitCode >>

\* the dependency the loop "for (const dep of allDependencies.components)" of
\* the call `top` is at
NextDep(top) ==
  top.deps.components[top.i]

\* one turn of that loop: the recursive call
CallDep ==
  /\ status \in {"running", "scanning"}
  /\ Len(stack) > 0
  /\ Top.pc = "deps"
  /\ Top.i <= Len(Top.deps.components)
  /\ IF Len(stack) < MaxDepth
       THEN /\ stack' = Append([stack EXCEPT ![Len(stack)].i = @ + 1], NewFrame(NextDep(Top)))
            /\ status' = status
       ELSE /\ stack' = stack
            /\ status' = "overflow"
  /\ UNCHANGED << given, calls, rewrites, request, attempt, downloadedComponents, out,
                  materialized, scan,
                  result, warnings, work, exitCode >>

\* the output directory after the shared files of a component were copied and
\* fixSharedFileImportPaths ran (both only when the component has dependencies)
AfterSharedFiles(top) ==
  IF Len(top.deps.components) > 0 \/ Len(top.deps.sharedFiles) > 0
    THEN fixSharedFileImportPaths(
           downloadSharedFiles(repo, unreadable, failCopy, out, top.deps.sharedFiles, SrcPath,
                               TargetDir),
           TargetDir, SrcPath, top.allComponents)
    ELSE out

\* the files the fixSharedFileImportPaths of the call `top` wrote back, out1
\* being the output directory it left
SharedPassOf(top, out1) ==
  IF Len(top.deps.components) > 0 \/ Len(top.deps.sharedFiles) > 0
    THEN sharedPassFiles(out1, TargetDir)
    ELSE << >>

\* the shared files of a call whose copy failed and was logged
FailedSharedFiles(top) ==
  Range(top.deps.sharedFiles) \cap failCopy

\* the copy of the component, fixImportPaths and downloadedComponents.add for
\* the call `top`, with the output directory the shared files left
FinishWith(top, component, targetPath, out1) ==
  IF component.path \in failCopy
    THEN /\ Throw(CopyError(component.path), FailedSharedFiles(top))
         /\ out' = out1
         /\ rewrites' = rewrites \o SharedPassOf(top, out1)
         /\ UNCHANGED << downloadedComponents, materialized >>
    ELSE /\ out' = fixImportPaths(Copy(repo, out1, component.path, targetPath),
                                  targetPath, TargetDir, top.deps, SrcPath)
         /\ rewrites' = rewrites \o SharedPassOf(top, out1) \o componentPassFiles(out', targetPath)
         /\ downloadedComponents' = downloadedComponents \cup {top.name}
         /\ materialized' = Append(materialized, top.name)
         /\ stack' = Popped
         /\ warnings' = warnings \cup FailedSharedFiles(top)
         /\ UNCHANGED << status, result >>

\* the rest of downloadComponentWithDependencies once the dependencies are done:
\* the shared files, the copy of the component, the rewrite, downloadedComponents.add
Finish ==
  /\ status \in {"running", "scanning"}
  /\ Len(stack) > 0
  /\ Top.pc = "deps"
  /\ Top.i > Len(Top.deps.components)
  /\ FinishWith(Top, FindComponent(Top.allComponents, Top.name),
                targetPathOf(TargetDir, Top.name), AfterSharedFiles(Top))
  /\ work' = work \cup {"write"}
  /\ UNCHANGED << given, calls, request, attempt, scan, exitCode >>

\* downloadSharedFileDependencies with the foundDependencies it computed: it
\* returns at once when shared/ does not exist or nothing new is found
ScanWith(found) ==
  IF Len(found) = 0
    THEN /\ status' = "returned"
         /\ result' = ReturnValue
         /\ scan' = scan
    ELSE /\ status' = "scanning"
         /\ result' = result
         /\ scan' = [found |-> found, i |-> 1]

\* downloadComponent after the first expansion returned
Scan ==
  /\ status = "running"
  /\ stack = << >>
  /\ ScanWith(foundDependencies(out, TargetDir, SrcPath, findAllComponents(repo, ComponentsPath),
                                downloadedComponents))
  /\ work' = work \cup {"discovery"}
  /\ UNCHANGED << given, calls, rewrites, request, attempt, stack, downloadedComponents, out,
                  materialized,
                  warnings, exitCode >>

\* one turn of "for (const componentDep of foundDependencies)"
ScanCall ==
  /\ status = "scanning"
  /\ stack = << >>
  /\ scan.i <= Len(scan.found)
  /\ stack' = << NewFrame(scan.found[scan.i]) >>
  /\ scan' = [scan EXCEPT !.i = scan.i + 1]
  /\ UNCHANGED << given, calls, rewrites, request, status, attempt, downloadedComponents, out,
                  materialized,
                  result, warnings, work, exitCode >>

\* the end of downloadSharedFileDependencies as it would be if the scan were
\* repeated until it finds nothing more
ScanDoneAgain ==
  /\ status = "scanning"
  /\ stack = << >>
  /\ scan.i > Len(scan.found)
  /\ out' = fixSharedFileImportPaths(out, TargetDir, SrcPath, findAllComponents(repo, ComponentsPath))
  /\ rewrites' = rewrites \o sharedPassFiles(out, TargetDir)
  /\ status' = "running"
  /\ work' = work \cup {"write"}
  /\ UNCHANGED << given, calls, request, attempt, stack, downloadedComponents, materialized, scan,
                  result, warnings, exitCode >>

\* the end of downloadSharedFileDependencies and of downloadComponent: the
\* second fixSharedFileImportPaths and the return value
ScanDone ==
  /\ status = "scanning"
  /\ stack = << >>
  /\ scan.i > Len(scan.found)
  /\ out' = fixSharedFileImportPaths(out, TargetDir, SrcPath, findAllComponents(repo, ComponentsPath))
  /\ rewrites' = rewrites \o sharedPassFiles(out, TargetDir)
  /\ status' = "returned"
  /\ result' = ReturnValue
  /\ work' = work \cup {"write"}
  /\ UNCHANGED << given, calls, request, attempt, stack, downloadedComponents, materialized, scan,
                  warnings, exitCode >>

\* removeFilesRecursively(dirPath, shouldRemove) for a shouldRemove that looks
\* for one of `patterns` in the file name: the files below dirPath whose name
\* holds one are removed
removeFilesRecursively(files, dirPath, patterns) ==
  SelectSeq(files, LAMBDA f : ~(/\ StartsWith(f.path, path_normalize(dirPath) \o "/")
                                /\ \E pat \in patterns : Includes(path_basename(f.path), pat)))

\* if (options.tests === false) removeTestFiles(outputDir), which removes the
\* files with fileName.includes('.test.') || fileName.includes('.spec.')
removeTestFiles(files, outputDir) ==
  IF options.tests THEN files ELSE removeFilesRecursively(files, outputDir, {".test.", ".spec."})

\* if (!options.includeStories) removeStoryFiles(outputDir), which removes the
\* files with fileName.includes('.stories.')
removeStoryFiles(files, outputDir) ==
  IF options.includeStories THEN files ELSE removeFilesRecursively(files, outputDir, {".stories."})

\* the catch of downloadCommand around downloadComponent offers a suggestion:
\* the message names the component and has a "Did you mean" list, of which
\* the pattern /Did you mean one of these\?\n  (.+)/ captures the first line
OffersSuggestion ==
  /\ attempt = 1
  /\ result.type = "NotFound"
  /\ result.heading = "Did you mean one of these?"

\* downloadCommand after downloadComponent resolved or rejected: the removal
\* of test and story files, or the catch with its offer to download the
\* suggested component instead
Complete ==
  /\ status \in {"returned", "failed"}
  /\ IF status = "returned"
       THEN /\ out' = removeStoryFiles(removeTestFiles(out, request.outputDir), request.outputDir)
            /\ status' = "done"
            /\ UNCHANGED << request, attempt, result >>
       ELSE IF OffersSuggestion /\ user.useSuggestion
         THEN /\ request' = [request EXCEPT !.name = result.suggestions[1]]
              /\ attempt' = 2
              /\ status' = "idle"
              /\ result' = NoResult
              /\ out' = out
         ELSE /\ status' = "done"
              /\ UNCHANGED << request, attempt, result, out >>
  /\ UNCHANGED << given, calls, rewrites, stack, downloadedComponents, materialized, scan,
                  warnings, work,
                  exitCode >>

Next ==
  \/ Command
  \/ Download
  \/ Enter
  \/ CallDep
  \/ Finish
  \/ Scan
  \/ ScanCall
  \/ ScanDone
  \/ Complete

Spec ==
  Init /\ [][Next]_vars


(***************************************************************************)
(* The GitService of src/services/git (src/unnamed/part_008): its field    *)
(* downloadedComponents is the variable of that name, its invocations of   *)
(* downloadComponent are `calls`. An action is what runs between two       *)
(* awaits of GitService; ComponentDownloadService.downloadComponent is one *)
(* action.                                                                 *)
(***************************************************************************)

\* the invocations of downloadComponent made on one GitService
CallIds == { "first", "second" }

\* the variables of the download command and of the GitService of src/services/git-service.ts,
\* which the GitService of src/services/git leaves alone
commandVars ==
  << unreadable, failCopy, environment, options, user, request, status, attempt, stack,
     materialized, scan, result, warnings, work, exitCode, rewrites, outBefore >>

\* a call of downloadComponentWithDependencies(componentName, outputDir)
ServiceFrame(componentName, pc) ==
  [name |-> componentName, pc |-> pc, dependencies |-> << >>, i |-> 1]

\* an invocation downloadComponent(componentName, undefined, outputDir) that
\* has not started; added, copied and skipped record what it does
NewCall(componentName, outputDir) ==
  [name |-> componentName, outputDir |-> outputDir, status |-> "new", stack |-> << >>,
   added |-> {}, copied |-> << >>, skipped |-> {}, alone |-> TRUE]

\* names asked for that are a directory of components in one of the
\* repositories, but no component
GroupNames ==
  { "Buttons" }

\* the invocations made on a GitService over the checkout r
ServiceCalls(r) ==
  [CallIds -> { NewCall(n, o) :
                  n \in Range(Names(findAllComponents(r, ComponentsPath))) \cup {"Alret"} \cup GroupNames,
                  o \in OutputDirs }]

ServiceInit ==
  /\ repo \in Repos
  /\ calls \in ServiceCalls(repo)
  /\ downloadedComponents = {}
  /\ out = << >>
  /\ unreadable = {}
  /\ failCopy = {}
  /\ environment = EnvOk
  /\ options = DefaultOptions
  /\ user = DefaultUser
  /\ request = [name |-> "", version |-> "", outputDir |-> ""]
  /\ status = "start"
  /\ attempt = 1
  /\ stack = << >>
  /\ materialized = << >>
  /\ scan = [found |-> << >>, i |-> 1]
  /\ result = NoResult
  /\ warnings = {}
  /\ work = {}
  /\ exitCode = 0
  /\ rewrites = << >>
  /\ outBefore = << >>

\* an invocation other than c is between its start and its end
OthersRunning(c) ==
  \E d \in CallIds \ {c} : calls[d].status = "running"

\* the invocations once c started while others run: none of them runs alone
Overlapping(c) ==
  [d \in CallIds |->
     IF d = c \/ calls[d].status = "running" THEN [calls[d] EXCEPT !.alone = FALSE] ELSE calls[d]]

\* the invocations once c started, overlapping the running ones if any
Started(c, all) ==
  [all EXCEPT ![c].status = "running", ![c].stack = << ServiceFrame(all[c].name, "enter") >>]

\* the field as it would be if downloadComponent did not clear it
ServiceDownloadKeeping(c) ==
  /\ calls[c].status = "new"
  /\ downloadedComponents' = downloadedComponents
  /\ calls' = Started(c, IF OthersRunning(c) THEN Overlapping(c) ELSE calls)
  /\ UNCHANGED << repo, out, commandVars >>

\* GitService.downloadComponent up to its first await:
\* this.downloadedComponents.clear()
ServiceDownload(c) ==
  /\ calls[c].status = "new"
  /\ downloadedComponents' = {}
  /\ calls' = Started(c, IF OthersRunning(c) THEN Overlapping(c) ELSE calls)
  /\ UNCHANGED << repo, out, commandVars >>

\* the call on top of the stack of invocation c
ServiceTop(c) ==
  calls[c].stack[Len(calls[c].stack)]

\* the stack of invocation c after the call on top of it returned
ServicePopped(c) ==
  SubSeq(calls[c].stack, 1, Len(calls[c].stack) - 1)

\* the status of invocation c once its stack is `rest`
StatusAfter(rest) ==
  IF Len(rest) = 0 THEN "returned" ELSE "running"

\* the first call of downloadComponentWithDependencies, after the awaits of
\* downloadComponent: the guard returns '' for a name in the field, else the
\* name is added and ComponentDownloadService.downloadComponent is called
ServiceEnter(c) ==
  /\ calls[c].status = "running"
  /\ ServiceTop(c).pc = "enter"
  /\ IF ServiceTop(c).name \in downloadedComponents
       THEN /\ calls' = [calls EXCEPT ![c].stack = ServicePopped(c),
                                      ![c].status = StatusAfter(ServicePopped(c)),
                                      ![c].skipped = @ \cup {ServiceTop(c).name}]
            /\ downloadedComponents' = downloadedComponents
       ELSE /\ calls' = [calls EXCEPT ![c].stack[Len(calls[c].stack)].pc = "download",
                                      ![c].added = @ \cup {ServiceTop(c).name}]
            /\ downloadedComponents' = downloadedComponents \cup {ServiceTop(c).name}
  /\ UNCHANGED << repo, out, commandVars >>

\* the rest of ServiceCopy with what ComponentDownloadService.downloadComponent gave
ServiceCopyWith(c, s) ==
  /\ out' = s.out
  /\ calls' = [calls EXCEPT ![c].stack[Len(calls[c].stack)] =
                              [@ EXCEPT !.pc = "deps", !.dependencies = s.dependencies],
                            ![c].copied = @ \o s.copied]

\* ComponentDownloadService.downloadComponent for the call on top of the
\* stack: it throws when the source does not exist, and nothing catches it
ServiceCopy(c) ==
  /\ calls[c].status = "running"
  /\ ServiceTop(c).pc = "download"
  /\ IF ~PathExists(repo, path_join(ComponentsPath, ServiceTop(c).name))
       THEN /\ calls' = [calls EXCEPT ![c].status = "failed", ![c].stack = << >>]
            /\ out' = out
       ELSE ServiceCopyWith(c, downloadExisting(repo, out, ServiceTop(c).name,
                                                calls[c].outputDir))
  /\ UNCHANGED << repo, downloadedComponents, commandVars >>

\* the dependency the loop "for (const dependency of dependencies)" is at
ServiceNextDep(c) ==
  ServiceTop(c).dependencies[ServiceTop(c).i]

\* one turn of that loop: a dependency in the field is passed over, for
\* another downloadComponentWithDependencies is called, which adds it and
\* calls ComponentDownloadService.downloadComponent
ServiceCallDep(c) ==
  /\ calls[c].status = "running"
  /\ ServiceTop(c).pc = "deps"
  /\ ServiceTop(c).i <= Len(ServiceTop(c).dependencies)
  /\ IF ServiceNextDep(c) \in downloadedComponents
       THEN /\ calls' = [calls EXCEPT ![c].stack[Len(calls[c].stack)].i = @ + 1,
                                      ![c].skipped = @ \cup {ServiceNextDep(c)}]
            /\ downloadedComponents' = downloadedComponents
       ELSE /\ calls' = [calls EXCEPT
                           ![c].stack = Append([@ EXCEPT ![Len(@)].i = @ + 1],
                                               ServiceFrame(ServiceNextDep(c), "download")),
                           ![c].added = @ \cup {ServiceNextDep(c)}]
            /\ downloadedComponents' = downloadedComponents \cup {ServiceNextDep(c)}
  /\ UNCHANGED << repo, out, commandVars >>

\* the return of downloadComponentWithDependencies after its loop
ServiceReturn(c) ==
  /\ calls[c].status = "running"
  /\ ServiceTop(c).pc = "deps"
  /\ ServiceTop(c).i > Len(ServiceTop(c).dependencies)
  /\ calls' = [calls EXCEPT ![c].stack = ServicePopped(c),
                            ![c].status = StatusAfter(ServicePopped(c))]
  /\ UNCHANGED << repo, downloadedComponents, out, commandVars >>

ServiceNext ==
  \E c \in CallIds :
    \/ ServiceDownload(c)
    \/ ServiceEnter(c)
    \/ ServiceCopy(c)
    \/ ServiceCallDep(c)
    \/ ServiceReturn(c)

SpecService == ServiceInit /\ [][ServiceNext]_vars
(***************************************************************************)
(* The properties                                                          *)
(***************************************************************************)

\* the index of the checkout
Index ==
  findAllComponents(repo, ComponentsPath)

\* what the analyzer reports for the component `name` of the index
DependenciesOf(name) ==
  findAllDependencies(repo, unreadable, FindComponent(Index, name).path, SrcPath, Index)

\* the components of the index idx whose directory holds the path p
Owners(idx, p) ==
  { c \in Range(idx) : StartsWith(p \o "/", c.path \o "/") }

\* the name of the innermost of the components `owners`, Null if there is none
Innermost(owners) ==
  IF owners = {} THEN Null
  ELSE (CHOOSE c \in owners : \A o \in owners : Len(o.path) <= Len(c.path)).name

\* a file of component a imports from the directory of component b
Imports(idx, a, b) ==
  \E f \in Range(repo) :
    /\ Innermost(Owners(idx, f.path)) = a
    /\ \E i \in 1..Len(f.imports) :
         /\ IsLocalTarget(f.imports[i].target)
         /\ Innermost(Owners(idx, path_resolve(path_dirname(f.path), f.imports[i].target))) = b

\* component a imports component b and b imports a
MutualCycle(idx, a, b) ==
  a # b /\ Imports(idx, a, b) /\ Imports(idx, b, a)

\* the last slash-separated segment of a name
LastSegment(name) ==
  Split(name, "/")[Len(Split(name, "/"))]

\* <outputDir>/<basename(name)>
OutputDirOf(name) ==
  path_join(request.outputDir, LastSegment(name))

\* the number of times the component `name` was copied to the output directory
TimesMaterialized(name) ==
  Cardinality({ i \in 1..Len(materialized) : materialized[i] = name })

\* C1: when the requested component A and a component B import each other,
\* downloadComponent(A) terminates (the recursion never goes deeper than there
\* are components to download), and when it has returned there is exactly one
\* output directory for A and one for B
C1_CycleTerminates ==
  (attempt = 1 /\ status \in {"overflow", "returned"}) =>
    \A b \in Range(Names(Index)) :
      MutualCycle(Index, request.name, b) =>
        /\ status # "overflow"
        /\ TimesMaterialized(request.name) = 1 /\ IsDirectory(out, OutputDirOf(request.name))
        /\ TimesMaterialized(b) = 1 /\ IsDirectory(out, OutputDirOf(b))

ComponentFiles(name) ==
  { SubSeq(f.path, Len(FindComponent(Index, name).path) + 1, Len(f.path)) :
      f \in Range(FilesBelow(repo, FindComponent(Index, name).path)) }

C4_DependencyFailureSkipped ==
  (/\ status \in {"failed", "returned"}
   /\ ~GitFails
   /\ InIndex(Index, request.name)
   /\ FindComponent(Index, request.name).path \notin failCopy) =>
    /\ status = "returned"
    /\ SeqIncludes(materialized, request.name)

\* C5: the names listed by the not-found error are at most 10
C5_SuggestionsCapped ==
  result.type = "NotFound" => Len(result.suggestions) <= SuggestionCap

\* the names of the index that contain the query or that it contains, whatever the case
SubstringMatches(names, query) ==
  SelectSeq(names, LAMBDA n : \/ Includes(ToLowerCase(n), ToLowerCase(query))
                              \/ Includes(ToLowerCase(query), ToLowerCase(n)))

\* suggestions are the names in the order of their Levenshtein distance to the query
RankedByDistance(suggestions, names, query) ==
  /\ Len(suggestions) = Len(names)
  /\ Range(suggestions) = Range(names)
  /\ \A i, j \in 1..Len(suggestions) :
       i < j => levenshtein(ToLowerCase(suggestions[i]), ToLowerCase(query))
                  <= levenshtein(ToLowerCase(suggestions[j]), ToLowerCase(query))

\* suggestions are what is to be suggested for a query the index does not hold
SuggestedFor(suggestions, names, query) ==
  IF Len(SubstringMatches(names, query)) > 0
    THEN suggestions = SubstringMatches(names, query)
    ELSE RankedByDistance(suggestions, names, query)

\* C6: for a name that is not in an index of at most 10 names, the names the
\* not-found error lists, and the suggestions of the command, are the names
\* that contain the query or are contained in it, whatever the case, and when
\* there is none, the names of the index by ascending Levenshtein distance
C6_SuggestionRanking ==
  (result.type = "NotFound" /\ Len(Index) <= SuggestionCap) =>
    /\ SuggestedFor(result.suggestions, Names(Index), result.name)
    /\ SuggestedFor(getComponentSuggestions(Names(Index), result.name), Names(Index), result.name)

\* C7: the component dependencies the analyzer returned for a component never
\* hold the name of that component
C7_NoSelfDependency ==
  \A k \in 1..Len(stack) :
    stack[k].pc = "deps" => ~SeqIncludes(stack[k].deps.components, stack[k].name)

\* the analyzer has returned for Card, whose files import from their own directory
C7_Witness ==
  /\ repo = RepoCycle
  /\ Len(stack) > 0
  /\ stack[Len(stack)].name = "Card"
  /\ stack[Len(stack)].pc = "deps"

\* p without the segment at position i
WithoutSegment(segs, i) ==
  SubSeq(segs, 1, i - 1) \o SubSeq(segs, i + 1, Len(segs))

\* flatten on the segments of a path: a segment common followed by a segment
\* Utils is dropped, otherwise a leading segment common is
FlattenSegments(segs) ==
  IF \E i \in 1..(Len(segs) - 1) : segs[i] = "common" /\ segs[i + 1] = "Utils"
    THEN WithoutSegment(segs, CHOOSE i \in 1..(Len(segs) - 1) :
                                /\ segs[i] = "common" /\ segs[i + 1] = "Utils"
                                /\ \A j \in 1..(i - 1) : ~(segs[j] = "common" /\ segs[j + 1] = "Utils"))
    ELSE IF Len(segs) > 1 /\ segs[1] = "common" THEN Tail(segs)
    ELSE segs

\* flatten(p)
Flatten(p) ==
  JoinWith(FlattenSegments(Split(p, "/")), "/")

\* C8: every shared file that was copied for a materialized component is at
\* <outputDir>/shared/<flatten(p)>, p being its path relative to the source root
C8_SharedDestination ==
  \A x \in Range(materialized) :
    \A s \in Range(DependenciesOf(x).sharedFiles) \ failCopy :
      IsFile(out, path_join(path_join(request.outputDir, "shared"),
                            Flatten(path_relative(SrcPath, s))))

\* the import path that leads from <outputDir>/<X> to component D
RewrittenTo(x, d) ==
  path_relative(OutputDirOf(x), OutputDirOf(d)) \o "/" \o LastSegment(d)

\* the code files directly inside the directory of component x
DirectCodeFiles(x) ==
  { f \in Range(SelectSeq(ReadDir(repo, FindComponent(Index, x).path), IsCodeFile)) :
      /\ IsFile(repo, path_join(FindComponent(Index, x).path, f))
      /\ IsFile(out, path_join(OutputDirOf(x), f)) }

\* the import at position i of file f of component x refers to component d,
\* before and after the rewrite
ImportRewritten(x, f, i, d) ==
  LET before == ReadFile(repo, path_join(FindComponent(Index, x).path, f))[i].target
      after == ReadFile(out, path_join(OutputDirOf(x), f))[i].target
      refers == resolveComponentDependency(before, FindComponent(Index, x).path,
                                           ComponentsPath, Index) = d
  IN /\ refers => after = RewrittenTo(x, d)
     /\ (~refers /\ after # before) => after # RewrittenTo(x, d)

\* C9: in a file directly inside a copied component directory <outputDir>/<X>,
\* every import that refers to a component dependency D of X reads as the
\* relative path from <outputDir>/<X> to <outputDir>/<basename(D)> followed by
\* /<basename(D)>, and no other import was rewritten to that
C9_ImportsRewritten ==
  \A x \in Range(materialized) :
    \A f \in DirectCodeFiles(x) :
      \A i \in 1..Len(ReadFile(repo, path_join(FindComponent(Index, x).path, f))) :
        \A d \in Range(DependenciesOf(x).components) :
          ImportRewritten(x, f, i, d)

\* C10: when the connectivity test has failed, the command has ended with a
\* non-zero exit code and without any component work
C10_ConnectivityFailureIsFatal ==
  (status = "done" /\ environment.configValid /\ ~environment.connected) =>
    /\ exitCode # 0
    /\ work = {}


(***************************************************************************)
(* Discovery                                                               *)
(***************************************************************************)

\* the prefixes of length 1..Len(segs)-1 of the segments of a file below root:
\* the directories on the way to it
DirectoriesTo(root, segs) ==
  { path_join(root, JoinWith(SubSeq(segs, 1, k), "/")) : k \in 1..(Len(segs) - 1) }

\* the directories below root in the checkout r
DirectoriesBelow(r, root) ==
  UNION { DirectoriesTo(root, Split(SubSeq(f.path, Len(root) + 2, Len(f.path)), "/"))
          : f \in { g \in Range(r) : StartsWith(g.path, root \o "/") } }

\* the name findAllComponents gives the directory d: its segments from the
\* components root, joined with slashes
NameFromRoot(root, d) ==
  SubSeq(d, Len(root) + 2, Len(d))

\* the walk skips the entry: a name that starts with a dot, or README.md
IsSkipped(item) ==
  StartsWith(item, ".") \/ item = "README.md"

\* the directories below root the walk reaches: none of their segments is skipped
WalkedDirectories(r, root) ==
  { d \in DirectoriesBelow(r, root) :
      \A seg \in Range(Split(NameFromRoot(root, d), "/")) : ~IsSkipped(seg) }

\* the substrings by which the command tells test and spec files (removeTestFiles)
TestMarkers == { ".test.", ".spec." }

\* the substring by which the command tells story files (removeStoryFiles)
StoryMarkers == { ".stories." }

\* the file name has a marker of the set
HasMarker(file, markers) ==
  \E m \in markers : Includes(file, m)

\* the directory d directly holds a file with the component extension that is
\* neither a test or spec file nor a story file
Qualifies(r, d) ==
  \E file \in Range(ReadDir(r, d)) :
    /\ IsFile(r, path_join(d, file))
    /\ EndsWith(file, ".tsx")
    /\ ~HasMarker(file, TestMarkers)
    /\ ~HasMarker(file, StoryMarkers)

\* the number of records of the index idx for the directory d
RecordsOf(idx, d) ==
  Cardinality({ i \in 1..Len(idx) : idx[i].path = d })

\* the index findAllComponents returned to the call on top of the stack
Discovered ==
  Len(stack) > 0 /\ Top.pc = "deps"

\* a directory the walk reaches has a record in idx if and only if it qualifies
RecordedIffQualifies(r, idx) ==
  \A d \in WalkedDirectories(r, ComponentsPath) :
    RecordsOf(idx, d) > 0 <=> Qualifies(r, d)

\* C11: in the index discovery returns, a directory the walk reaches has a
\* record if and only if it directly holds at least one .tsx file whose name
\* has neither a test or spec marker nor a story marker; a directory with
\* only test, spec or story files has no record
C11_ComponentIffImplementationFile ==
  Discovered => RecordedIffQualifies(repo, Top.allComponents)

\* the records of idx for the directory d are exactly one, and it carries the
\* slash-joined segments of d from the components root as its name
RecordedOnce(idx, d) ==
  /\ RecordsOf(idx, d) = 1
  /\ \A i \in 1..Len(idx) :
       idx[i].path = d <=> idx[i].name = NameFromRoot(ComponentsPath, d)

\* every directory the walk reaches is recorded once under its path when it
\* has a component file and not at all when it has none, whatever its parents
\* are, and nothing else is recorded
RecordedAtAnyDepth(r, idx) ==
  /\ \A d \in WalkedDirectories(r, ComponentsPath) :
       IF hasComponentFile(r, d) THEN RecordedOnce(idx, d) ELSE RecordsOf(idx, d) = 0
  /\ \A i \in 1..Len(idx) : idx[i].path \in WalkedDirectories(r, ComponentsPath)

\* C12: in the index discovery returns, every directory the walk reaches that
\* has a component file, at any depth and whether or not its parent has one,
\* is recorded exactly once under the slash-joined path of its segments from
\* the components root, and a directory without one contributes no record
\* while the directories below it are still recorded
C12_NestedComponentsRecorded ==
  Discovered => RecordedAtAnyDepth(repo, Top.allComponents)

\* discovery has run on a checkout where the component Form has the component
\* Form/Inputs/Select below it, under the directory Form/Inputs that is none
C12_Witness ==
  /\ Discovered
  /\ Names(Top.allComponents) = << "Form", "Form/Inputs/Select", "Other/Select" >>
  /\ hasComponentFile(repo, "/r/src/components/Form")
  /\ ~hasComponentFile(repo, "/r/src/components/Form/Inputs")
  /\ ~hasComponentFile(repo, "/r/src/components/Other")

(***************************************************************************)
(* Test and story files                                                    *)
(***************************************************************************)

\* --include-tests was given: the download command declares --no-tests and
\* --include-stories but no --include-tests, so no run of it was given one
IncludeTests == FALSE

\* the files below the output directory whose name has a marker of the set
MarkedFiles(files, outputDir, markers) ==
  { f \in Range(files) : /\ StartsWith(f.path, path_normalize(outputDir) \o "/")
                         /\ HasMarker(path_basename(f.path), markers) }

\* the command has finished after a download that returned
Downloaded ==
  status = "done" /\ result.type = "path"

\* C13: when the download command has finished, the output directory holds
\* test files only if --include-tests was given and story files only if
\* --include-stories was given
C13_TestsAndStoriesOnlyOnRequest ==
  Downloaded =>
    /\ MarkedFiles(out, request.outputDir, TestMarkers) # {} => IncludeTests
    /\ MarkedFiles(out, request.outputDir, StoryMarkers) # {} => options.includeStories


(***************************************************************************)
(* The DownloadedSet and the order of the recursion                        *)
(***************************************************************************)

\* the calls of downloadComponentWithDependencies that have made a recursive
\* call: all those on the stack but the one on top
Recursed ==
  { stack[k].name : k \in 1..(Len(stack) - 1) }

\* C14: a call of downloadComponentWithDependencies(name) adds name to
\* downloadedComponents exactly once, and before its first recursive call for
\* one of name's component dependencies: while a call made for a dependency
\* of name is active, name is in the set
C14_AddedBeforeRecursing ==
  /\ \A name \in Recursed : name \in downloadedComponents
  /\ \A name \in downloadedComponents : TimesMaterialized(name) = 1

(***************************************************************************)
(* The analyzer                                                            *)
(***************************************************************************)

\* the local imports of the code files directly in the directory componentPath
\* of the checkout r that start with the prefix
ImportsStarting(r, componentPath, prefix) ==
  { t \in UNION { Range(extractLocalImports(ReadFile(r, path_join(componentPath, file))))
                  : file \in { g \in Range(ReadDir(r, componentPath)) :
                                 IsCodeFile(g) /\ IsFile(r, path_join(componentPath, g)) } } :
      StartsWith(t, prefix) }

\* no import of the component at componentPath that starts with ./ is
\* resolved to a component of the index
SameDirectoryNeverComponent(r, componentPath, allComponents) ==
  \A t \in ImportsStarting(r, componentPath, "./") :
    resolveComponentDependency(t, componentPath, ComponentsPath, allComponents) = Null

\* C19: when the analyzer has run for a component, none of the imports of the
\* component that start with ./ is classified as a component dependency,
\* whatever the index holds
C19_SameDirectoryNeverDependency ==
  Discovered =>
    SameDirectoryNeverComponent(repo, FindComponent(Top.allComponents, Top.name).path,
                                Top.allComponents)

\* p is the directory dir or below it
IsUnder(p, dir) ==
  p = dir \/ StartsWith(p, dir \o "/")

\* the path an import of the component at componentPath resolves to: as
\* written, or with the first extension or index file that exists
ResolvedImport(r, componentPath, t) ==
  WithExtension(r, t, path_resolve(componentPath, t))

\* the imports of the component at componentPath that are no component
\* dependency and resolve to something that exists under the source root but
\* outside the components subtree
SharedImports(r, componentPath, allComponents) ==
  { t \in ImportsStarting(r, componentPath, ".") :
      /\ resolveComponentDependency(t, componentPath, ComponentsPath, allComponents) = Null
      /\ PathExists(r, ResolvedImport(r, componentPath, t))
      /\ IsUnder(ResolvedImport(r, componentPath, t), SrcPath)
      /\ ~IsUnder(ResolvedImport(r, componentPath, t), ComponentsPath) }

\* the shared files of a result hold the resolved path: as its path relative
\* to the source root, or as the resolved path itself, which is how
\* resolveSharedFileDependency returns it
RecordedShared(sharedFiles, resolvedPath) ==
  \/ SeqIncludes(sharedFiles, path_relative(SrcPath, resolvedPath))
  \/ SeqIncludes(sharedFiles, resolvedPath)

\* every shared import of the component at componentPath is in sharedFiles
SharedImportsRecorded(r, componentPath, allComponents, sharedFiles) ==
  \A t \in SharedImports(r, componentPath, allComponents) :
    RecordedShared(sharedFiles, ResolvedImport(r, componentPath, t))

\* C20: when the analyzer has run for a component, every relative import of
\* it that is no component dependency and resolves to an existing path under
\* the source root but outside the components subtree is among the shared
\* files of the result
C20_SharedFileClassified ==
  Discovered =>
    SharedImportsRecorded(repo, FindComponent(Top.allComponents, Top.name).path,
                          Top.allComponents, Top.deps.sharedFiles)

(***************************************************************************)
(* The invocations of the GitService of src/services/git                   *)
(***************************************************************************)

\* the number of times x is in the sequence s
CountIn(s, x) ==
  Cardinality({ i \in 1..Len(s) : s[i] = x })

\* the place of the first x in the sequence s, Len(s) + 1 when there is none
FirstIndexIn(s, x) ==
  IF \E i \in 1..Len(s) : s[i] = x
    THEN CHOOSE i \in 1..Len(s) : s[i] = x /\ \A j \in 1..(i - 1) : s[j] # x
    ELSE Len(s) + 1

\* C15: within one invocation of downloadComponent, no other invocation
\* running meanwhile, the files of each component are copied to the output
\* directory at most once, whatever imports what
C15_CopiedAtMostOnce ==
  \A c \in DOMAIN calls :
    calls[c].alone =>
      \A name \in Range(calls[c].copied) : CountIn(calls[c].copied, name) <= 1

\* C16: for a component X whose own files were copied by the recursive step
\* of an invocation (no other invocation running meanwhile) and each component
\* dependency D it then visits, in the order of the analysis, the files of D
\* were copied to the output directory before those of X
C16_DependenciesMaterializedFirst ==
  \A c \in DOMAIN calls :
    calls[c].alone =>
      \A k \in 1..Len(calls[c].stack) :
        calls[c].stack[k].pc = "deps" =>
          \A d \in Range(calls[c].stack[k].dependencies) :
            FirstIndexIn(calls[c].copied, d) < FirstIndexIn(calls[c].copied, calls[c].stack[k].name)

\* the source of the component asked for by invocation c exists
SourceExists(c) ==
  PathExists(repo, path_join(ComponentsPath, calls[c].name))

\* C17: an invocation of downloadComponent that starts when no other is
\* running starts with an empty downloadedComponents, whatever earlier
\* invocations recorded: it passes over no name it has not added itself, and
\* when it has returned the component asked for was copied
C17_SetEmptyAtStart ==
  \A c \in DOMAIN calls :
    calls[c].alone =>
      /\ (calls[c].status = "running" /\ Len(calls[c].stack) = 1 /\ ServiceTop(c).pc = "enter")
           => downloadedComponents = {}
      /\ calls[c].skipped \subseteq calls[c].added
      /\ (calls[c].status = "returned" /\ SourceExists(c))
           => CountIn(calls[c].copied, calls[c].name) > 0

\* two invocations, one after the other, asked for Page and both copied it
C17_Witness ==
  /\ DOMAIN calls = CallIds
  /\ \A c \in CallIds : /\ calls[c].alone
                        /\ calls[c].status = "returned"
                        /\ calls[c].name = "Page"
                        /\ calls[c].outputDir = "./components"
                        /\ CountIn(calls[c].copied, "Page") > 0
  /\ downloadedComponents # {}

\* C18: each running invocation works on its own DownloadedSet: the set it
\* reads holds the names it added itself and no other, and the names it
\* passed over are names it added
C18_OwnDownloadedSet ==
  \A c \in DOMAIN calls :
    /\ (calls[c].status = "running" /\ ServiceTop(c).pc # "enter")
         => downloadedComponents = calls[c].added
    /\ calls[c].skipped \subseteq calls[c].added

(***************************************************************************)
(* Read failures during the analysis                                       *)
(***************************************************************************)

\* the code files directly in componentPath whose read does not fail
ReadableFiles(r, componentPath) ==
  { path_join(componentPath, file) :
      file \in { g \in Range(ReadDir(r, componentPath)) :
                   /\ IsCodeFile(g)
                   /\ IsFile(r, path_join(componentPath, g))
                   /\ path_join(componentPath, g) \notin unreadable } }

\* what the analysis of the file filePath alone gives
DependenciesOfFile(r, filePath, componentPath, allComponents) ==
  AnalyzeImports(r, extractLocalImports(ReadFile(r, filePath)), componentPath, SrcPath,
                 allComponents, NoDeps)

\* deps holds what the analysis of every readable file of the component gives
HoldsAllReadable(r, componentPath, allComponents, deps) ==
  \A filePath \in ReadableFiles(r, componentPath) :
    /\ Range(DependenciesOfFile(r, filePath, componentPath, allComponents).components)
         \subseteq Range(deps.components)
    /\ Range(DependenciesOfFile(r, filePath, componentPath, allComponents).sharedFiles)
         \subseteq Range(deps.sharedFiles)

\* C21: when the analyzer has run for a component, its result holds the
\* dependencies of every file of the component whose read did not fail,
\* wherever in the listing the file whose read failed is
C21_AnalysisContinuesAfterReadError ==
  Discovered =>
    HoldsAllReadable(repo, FindComponent(Top.allComponents, Top.name).path, Top.allComponents,
                     Top.deps)

(***************************************************************************)
(* The rewritten imports of shared files                                   *)
(***************************************************************************)

\* the import t, written in a file of directory dir, denotes the file placed:
\* as written, with an extension, or as the index file of a directory
Denotes(t, dir, placed) ==
  \/ path_resolve(dir, t) = path_resolve(Cwd, placed)
  \/ \E ext \in SharedExtensions : path_resolve(dir, t) \o ext = path_resolve(Cwd, placed)
  \/ \E ext \in SharedExtensions :
       path_join(path_resolve(dir, t), "index" \o ext) = path_resolve(Cwd, placed)

\* the positions of the statements of the file filePath of the component at
\* componentPath that import one of sharedFiles
SharedStatements(r, filePath, componentPath, sharedFiles) ==
  { i \in 1..Len(ReadFile(r, filePath)) :
      /\ IsLocalTarget(ReadFile(r, filePath)[i].target)
      /\ SeqIncludes(sharedFiles, ResolvedImport(r, componentPath, ReadFile(r, filePath)[i].target)) }

\* in the copy copiedPath of the file filePath, every import of one of
\* sharedFiles denotes the place in targetDir that file was copied to
SharedImportsFollowCopy(r, o, filePath, copiedPath, componentPath, targetDir, sharedFiles) ==
  \A i \in SharedStatements(r, filePath, componentPath, sharedFiles) :
    IsFile(o, sharedTargetPath(ResolvedImport(r, componentPath, ReadFile(r, filePath)[i].target),
                               SrcPath, targetDir))
      => Denotes(ReadFile(o, copiedPath)[i].target, path_dirname(copiedPath),
                 sharedTargetPath(ResolvedImport(r, componentPath,
                                                 ReadFile(r, filePath)[i].target),
                                  SrcPath, targetDir))

\* C22: when downloadComponent has returned, every import of the copied
\* requested component that refers to one of its shared-file dependencies,
\* resolved from the importing file in the output, denotes the place the copy
\* step put that shared file
C22_RewrittenImportDenotesCopy ==
  (status = "returned" /\ result.type = "path" /\ unreadable = {}) =>
    \A filePath \in ReadableFiles(repo, FindComponent(Index, request.name).path) :
      SharedImportsFollowCopy(repo, out, filePath,
                              path_join(OutputDirOf(request.name), path_basename(filePath)),
                              FindComponent(Index, request.name).path, request.outputDir,
                              DependenciesOf(request.name).sharedFiles)

(***************************************************************************)
(* The scan of shared/                                                     *)
(***************************************************************************)

\* downloadComponent has returned a path
Returned ==
  status = "returned" /\ result.type = "path"

\* C23: when downloadComponent has returned, every component that the scan of
\* shared/ resolved an import to and that was not yet downloaded when the
\* expansion of the requested component finished is among the downloaded
\* components and has its directory in the output
C23_ScanDependenciesDownloaded ==
  Returned =>
    \A name \in Range(scan.found) :
      name \in downloadedComponents /\ IsDirectory(out, OutputDirOf(name))

\* the step in which downloadSharedFileDependencies computes what it found
ScanStep ==
  status = "running" /\ status' \in {"scanning", "returned"}

\* C24: the scan of shared/ happens once in a call of downloadComponent, when
\* the expansion of the requested component has finished (no call is active
\* and the requested component is downloaded); what it found is not computed
\* again, and the call does not go back to scanning after the pass
C24_ScanOnceAfterExpansion ==
  [][/\ ScanStep => (stack = << >> /\ request.name \in downloadedComponents)
     /\ status \in {"scanning", "returned"} => status' # "running"
     /\ status = "scanning" => scan'.found = scan.found
     /\ (status' = "returned" /\ status # "returned") => status \in {"running", "scanning"}]_vars

\* a call has returned after a pass that downloaded a component whose shared
\* file imports a component that is still not downloaded
C24_Witness ==
  /\ Returned
  /\ failCopy = {}
  /\ Len(scan.found) > 0
  /\ foundDependencies(out, TargetDir, SrcPath, Index, downloadedComponents) # << >>

(***************************************************************************)
(* The rewrite passes                                                      *)
(***************************************************************************)

\* <outputDir>/shared
SharedDir ==
  path_join(request.outputDir, "shared")

\* C25: in one download operation a file of a copied component is written
\* back by exactly one rewrite pass, and a file under <outputDir>/shared/ by
\* at most two: one pass, and the one that follows the scan of shared/
C25_OneRewritePassPerFile ==
  \A p \in Range(rewrites) :
    IF IsUnder(p, SharedDir)
      THEN CountIn(rewrites, p) <= 2
      ELSE CountIn(rewrites, p) = 1

\* the files of the checkout r that were copied to the place p under
\* <targetDir>/shared
SharedSourcesOf(r, p, targetDir) ==
  { f \in Range(r) : sharedTargetPath(f.path, SrcPath, targetDir) = p }

\* the statements of the file f, copied to the place p, that point within the
\* tree sharedDir when they are read at p
PointingWithin(f, p, sharedDir) ==
  { i \in 1..Len(f.imports) :
      /\ IsLocalTarget(f.imports[i].target)
      /\ IsUnder(path_resolve(path_dirname(p), f.imports[i].target), path_resolve(Cwd, sharedDir)) }

\* C26: an import of a file under <outputDir>/shared/ that points within the
\* shared/ tree, a same-directory import of a file of shared/Utils among
\* them, has in the output the text it has in the checkout: no rewrite pass
\* over shared/ changed it
C26_SharedToSharedImportsKept ==
  \A g \in { h \in Range(out) : IsUnder(h.path, SharedDir) } :
    \A f \in SharedSourcesOf(repo, g.path, request.outputDir) :
      \A i \in PointingWithin(f, g.path, SharedDir) :
        g.imports[i].target = f.imports[i].target

(***************************************************************************)
(* The output directories                                                  *)
(***************************************************************************)

C28_NotFoundWritesNothing ==
  \A c \in DOMAIN calls :
    ~InIndex(Index, calls[c].name) =>
      /\ calls[c].copied = << >>
      /\ calls[c].status # "returned"

(***************************************************************************)
(* The output directory the command found                                  *)
(***************************************************************************)

\* the files of o below the directory dir
FilesUnder(o, dir) ==
  { f \in Range(o) : IsUnder(f.path, path_normalize(dir)) }

\* the command asked "Component ... already exists. Overwrite?": the path it
\* looks at existed and --force was not given
Asked ==
  PathExists(outBefore, path_join(request.outputDir, request.name)) /\ ~options.force

\* C29: without --force, an output directory of the requested component that
\* existed before the command is changed only after the user was asked and
\* agreed; when the user declines it is what it was
C29_NoOverwriteWithoutAsking ==
  (attempt = 1 /\ ~options.force /\ PathExists(outBefore, targetPathOf(TargetDir, request.name))) =>
    \/ FilesUnder(out, targetPathOf(TargetDir, request.name))
         = FilesUnder(outBefore, targetPathOf(TargetDir, request.name))
    \/ Asked /\ user.overwrite

\* the directories the current download copied a component to
MaterializedDirectories ==
  { targetPathOf(TargetDir, materialized[i]) : i \in 1..Len(materialized) }

\* C30: when the command has finished, every file the output directory held
\* before it outside the directories the current download copied a component
\* to is still there: the removal of test and story files did not touch it
C30_CleanupOnlyInMaterialized ==
  Downloaded =>
    \A f \in Range(outBefore) :
      (\A dir \in MaterializedDirectories : ~IsUnder(f.path, dir)) => IsFile(out, f.path)
====
